---- MODULE Spec2Model ----
(***************************************************************************)
(* The self-improvement loop of Auto Claude (auto-claude/improvement):     *)
(* the JSON store, the goal/card data model and ImprovementLoop.run /      *)
(* resume_after_user_action, as a state machine.  One ImprovementLoop is   *)
(* driven by one caller (single writer); while a call is in progress       *)
(* (pc # "idle") nothing else touches the store.                           *)
(***************************************************************************)
EXTENDS Integers, Sequences, FiniteSets, TLC

\* ------------------------------------------------------------- bounds
MaxReflections == 2
MaxCards == 2
MaxPatterns == 1
MaxIter == 2
MaxCapSaves == 3
MaxTasks == 5
MaxGathered == 3
MaxLimit == 2
MaxSimpleIter == 3
MaxInitialAttempts == 6
MaxRaceSaves == 2

\* ------------------------------------------------- program constants
\* resume_after_user_action: "if len(dismissed_cards) > 5"
StallThreshold == 5
\* ImprovementStore.get_reflections(limit=100) / save_reflection cap
ReflectionCap == 100
\* ReflectionEngine.propose_for_metric: get_reflections(limit=20)
ProposeWindow == 20
\* propose_for_metric: "r.qa_iterations >= 3"
HighQaThreshold == 3
PatternThreshold == 3
AnalysisWindow == 50
HighQaIterations == 3
\* DiscoveryEngine.CACHE_DURATION, seconds
CacheDuration == 3600
\* "if d.relevance_score < 0.3": scores are counted in hundredths
RelevanceThreshold == 30
\* vercel/loop.py MAX_VERCEL_FIX_ATTEMPTS
MaxVercelFixAttempts == 5
\* integrations/vercel/config.py DEFAULT_POLL_INTERVAL_SECONDS and
\* DEFAULT_POLL_TIMEOUT_MINUTES, the only values VercelConfig.from_env gives
DefaultPollIntervalSeconds == 30
DefaultPollTimeoutMinutes == 15
\* wait_for_deployment: find_deployment_by_commit(commit_sha, wait_seconds=60)
FindWaitSeconds == 60
\* VercelClient.__aenter__: httpx.AsyncClient(timeout=30.0)
HttpTimeoutSeconds == 30

None == "None"

\* ------------------------------------------------------------ numbers
\* A float that the loop compares is a ratio of two small integers (a sum
\* divided by a count, or a target the caller chose): [n, d] with d > 0.
Rat(n, d) == [n |-> n, d |-> d]
Zero == Rat(0, 1)
Le(a, b) == a.n * b.d <= b.n * a.d
Lt(a, b) == a.n * b.d < b.n * a.d
Ge(a, b) == Le(b, a)
Gt(a, b) == Lt(b, a)

RECURSIVE SumSeq(_)
\* sum(xs) of a list of integers
SumSeq(xs) == IF xs = <<>> THEN 0 ELSE Head(xs) + SumSeq(Tail(xs))

Count(seq, x) == Len(SelectSeq(seq, LAMBDA e : e = x))
Reverse(seq) == [i \in 1..Len(seq) |-> seq[Len(seq) + 1 - i]]
Take(seq, k) == IF k <= 0 THEN <<>> ELSE SubSeq(seq, 1, IF k < Len(seq) THEN k ELSE Len(seq))

\* ------------------------------------------------------------- times
\* A datetime is seconds and microseconds.  datetime.isoformat() leaves the
\* fraction out when the microseconds are 0; the text is the atoms
\* <<seconds>> or <<seconds, ".", microseconds>> (fixed-width digits).
Time(sec, us) == [s |-> sec, us |-> us]
Epoch == Time(0, 0)
\* a datetime field that holds None; in JSON None is null, here the empty text
Never == Time(0 - 1, 0)
Null == <<>>
\* the clock reading of a call whose time of day plays no part
Now == Time(1, 0)
IsoFormat(t) == IF t.us = 0 THEN <<t.s>> ELSE <<t.s, ".", t.us>>
FromIsoFormat(str) == Time(str[1], IF Len(str) = 3 THEN str[3] ELSE 0)
\* datetime comparison, and str comparison of two such texts
TimeLess(t, u) == t.s < u.s \/ (t.s = u.s /\ t.us < u.us)
IsoLess(a, b) ==
    \/ a[1] < b[1]
    \/ /\ a[1] = b[1]
       /\ \/ Len(a) = 1 /\ Len(b) = 3
          \/ Len(a) = 3 /\ Len(b) = 3 /\ a[3] < b[3]

\* ------------------------------------------------------------ strings
\* A string is a sequence of atoms (words, "_" and " "); str.replace and the
\* substring test `needle in text` work on the atoms.
Replace(str, old, new) == [i \in 1..Len(str) |-> IF str[i] = old THEN new ELSE str[i]]
Contains(text, needle) ==
    \E i \in 0..(Len(text) - Len(needle)) :
        \A j \in 1..Len(needle) : text[i + j] = needle[j]
Lower(str) ==
    [i \in 1..Len(str) |->
        CASE str[i] = "Fix" -> "fix"
          [] str[i] = "Reduce" -> "reduce"
          [] str[i] = "Improve" -> "improve"
          [] str[i] = "QA" -> "qa"
          [] str[i] = "New" -> "new"
          [] str[i] = "Tool:" -> "tool:"
          [] str[i] = "Discovery" -> "discovery"
          [] OTHER -> str[i]]

\* issue types of the QA taxonomy (metrics.categorize_issue)
TypeError == <<"type", "_", "error">>
Performance == <<"performance">>
IssueTypes == {TypeError, Performance}

\* ------------------------------------------------------------- enums
GoalTypes == {"metric", "discovery", "pattern_fix"}
GoalStatuses == {"active", "achieved", "abandoned"}
CardStatuses == {"proposed", "approved", "applied", "dismissed"}
CardTypes == {"reflection", "discovery", "optimization"}
Severities == {"high", "medium"}

G1 == "g1"
G2 == "g2"

\* ------------------------------------------------------- data model
\* GoalMetric (models.py): name and target; NoMetric stands for metric=None.
NoMetric == [name |-> None, target |-> Zero]
HasMetric(goal) == goal.metric.name # None

\* An ImprovementGoal object held by the caller.  typeIsEnum tells whether
\* goal.type is a GoalType member or the plain string get_goals leaves there.
NoGoal ==
    [id |-> None, type |-> None, typeIsEnum |-> FALSE, status |-> None,
     metric |-> NoMetric, discovery_count |-> 0, discovered_so_far |-> 0,
     achieved_at |-> None]

\* the module-level factories create_metric_goal / create_discovery_goal /
\* create_pattern_fix_goal of loop.py
NewGoal(id, type, metric, count) ==
    [id |-> id, type |-> type, typeIsEnum |-> TRUE, status |-> "active",
     metric |-> metric, discovery_count |-> count, discovered_so_far |-> 0,
     achieved_at |-> None]

\* ImprovementGoal.to_dict: self.type.value needs an enum member
CanSerialize(goal) == goal.typeIsEnum
GoalToDict(goal) ==
    [id |-> goal.id, type |-> goal.type, status |-> goal.status,
     metric |-> goal.metric, discovery_count |-> goal.discovery_count,
     discovered_so_far |-> goal.discovered_so_far,
     achieved_at |-> goal.achieved_at]

\* the constructor call inside get_goals: type=g["type"] (a str); only a goal
\* with a metric gets goal.type = GoalType(g["type"])
GoalFromDict(g) ==
    [id |-> g.id, type |-> g.type, typeIsEnum |-> (g.metric.name # None),
     status |-> g.status, metric |-> g.metric,
     discovery_count |-> g.discovery_count,
     discovered_so_far |-> g.discovered_so_far,
     achieved_at |-> g.achieved_at]

\* ImprovementCard.to_dict / from_dict.  CardType, CardStatus are str enums:
\* a member and its value are the same string.
\* "applied_at": self.applied_at.isoformat() if self.applied_at else None
\* applied_at=datetime.fromisoformat(...) if data.get("applied_at") else None
CardToDict(c) ==
    [id |-> c.id, type |-> c.type, title |-> c.title, status |-> c.status,
     goal_id |-> c.goal_id,
     applied_at |-> IF c.applied_at # Never THEN IsoFormat(c.applied_at) ELSE Null]
CardFromDict(d) ==
    [id |-> d.id, type |-> d.type, title |-> d.title, status |-> d.status,
     goal_id |-> d.goal_id,
     applied_at |-> IF d.applied_at # Null THEN FromIsoFormat(d.applied_at) ELSE Never]

\* ------------------------------------------------------------- store
\* a rewrite of the list that keeps the saved record only
UpsertAlone(list, rec) == <<rec>>
\* Upsert by id into a persisted list (save_card, save_goal, save_pattern).
Upsert(list, rec) ==
    IF \E i \in 1..Len(list) : list[i].id = rec.id
    THEN LET k == CHOOSE i \in 1..Len(list) :
                    /\ list[i].id = rec.id
                    /\ \A j \in 1..(i - 1) : list[j].id # rec.id
         IN  [list EXCEPT ![k] = rec]
    ELSE Append(list, rec)

\* get_cards: every card, newest first (created_at grows with the position)
GetCards(file) == Reverse([i \in 1..Len(file) |-> CardFromDict(file[i])])
\* a save that appends without looking for the id
SaveCardAppend(file, card) == Append(file, CardToDict(card))
SaveCard(file, card) == Upsert(file, CardToDict(card))
GetCardsForGoal(file, goal_id) ==
    SelectSeq(GetCards(file), LAMBDA c : c.goal_id = goal_id)
HasCard(file, id) == \E i \in 1..Len(file) : file[i].id = id
GetCard(file, id) ==
    LET cs == SelectSeq(GetCards(file), LAMBDA c : c.id = id) IN Head(cs)

\* ImprovementCard.approve / dismiss / apply and the else branch of
\* update_card_status
WithStatus(card, status, now) ==
    IF status = "applied"
    THEN [card EXCEPT !.status = "applied", !.applied_at = now]
    ELSE [card EXCEPT !.status = status]
UpdateCardStatus(file, id, status, now) ==
    IF HasCard(file, id) THEN SaveCard(file, WithStatus(GetCard(file, id), status, now))
    ELSE file

GetGoals(file) == Reverse([i \in 1..Len(file) |-> GoalFromDict(file[i])])
HasGoal(file, id) == \E i \in 1..Len(file) : file[i].id = id
GetGoal(file, id) ==
    LET gs == SelectSeq(GetGoals(file), LAMBDA g : g.id = id)
    IN  IF gs = <<>> THEN NoGoal ELSE Head(gs)
SaveGoal(file, goal) == Upsert(file, GoalToDict(goal))

\* TaskReflection.to_dict and the constructor call inside get_reflections
ReflectionToDict(r) ==
    [success |-> r.success, qa_iterations |-> r.qa_iterations,
     total_duration_seconds |-> r.total_duration_seconds,
     issue_types |-> r.issue_types, created_at |-> IsoFormat(r.created_at)]
ReflectionFromDict(d) ==
    [success |-> d.success, qa_iterations |-> d.qa_iterations,
     total_duration_seconds |-> d.total_duration_seconds,
     issue_types |-> d.issue_types, created_at |-> FromIsoFormat(d.created_at)]

\* sorted(..., key=created_at, reverse=True): a stable sort, so entries with
\* equal keys keep their order.  An entry lands behind every entry with a
\* greater key and behind the entries with an equal key that stood before it.
SortByTime(seq) ==
    LET rank == [i \in 1..Len(seq) |->
                    1 + Cardinality({j \in 1..Len(seq) :
                          \/ TimeLess(seq[i].created_at, seq[j].created_at)
                          \/ j < i /\ ~TimeLess(seq[j].created_at, seq[i].created_at)})]
                \o <<>>
    IN  [k \in 1..Len(seq) |-> seq[CHOOSE i \in 1..Len(seq) : rank[i] = k]]
\* the list as it stands in the file
Unsorted(seq) == seq
SortByIso(seq) ==
    LET rank == [i \in 1..Len(seq) |->
                    1 + Cardinality({j \in 1..Len(seq) :
                          \/ IsoLess(seq[i].created_at, seq[j].created_at)
                          \/ j < i /\ ~IsoLess(seq[j].created_at, seq[i].created_at)})]
                \o <<>>
    IN  [k \in 1..Len(seq) |-> seq[CHOOSE i \in 1..Len(seq) : rank[i] = k]]

\* get_reflections(limit): newest first, at most limit
GetReflections(file, limit) ==
    Take(SortByTime([i \in 1..Len(file) |-> ReflectionFromDict(file[i])]), limit)
\* save_reflection: append; over ReflectionCap entries, keep the
\* ReflectionCap with the greatest created_at text
SaveReflection(file, r) ==
    LET all == Append(file, ReflectionToDict(r))
    IN  IF Len(all) > ReflectionCap
        THEN Take(SortByIso(all), ReflectionCap)
        ELSE all

GetPatterns(file) == file
\* A save that keeps only the pattern being saved.
SavePatternLatest(file, p) == <<p>>
SavePattern(file, p) == Upsert(file, p)

\* ----------------------------------------------------------- metrics
\* ImprovementMetrics() with its defaults: what metrics.json stands for
\* before the first recalculation.
DefaultMetrics ==
    [total_tasks |-> 0, successful_tasks |-> 0, failed_tasks |-> 0,
     avg_qa_iterations |-> Zero, total_qa_iterations |-> 0,
     avg_task_duration_seconds |-> Zero, recurring_patterns_count |-> 0,
     cards_proposed |-> 0, cards_approved |-> 0, cards_applied |-> 0,
     cards_dismissed |-> 0, active_goals |-> 0, achieved_goals |-> 0]

\* recalculate_metrics: a full recompute from the four stored lists (the
\* per-phase duration averages are left out; nothing here reads them)
RecalculateMetrics(reflFile, cFile, gFile, pFile) ==
    LET reflections == GetReflections(reflFile, ReflectionCap)
        cards == GetCards(cFile)
        goals == GetGoals(gFile)
        patterns == GetPatterns(pFile)
        qa_iters == [i \in 1..Len(reflections) |-> reflections[i].qa_iterations]
        timed == SelectSeq(reflections, LAMBDA r : r.total_duration_seconds > 0)
        durations == [i \in 1..Len(timed) |-> timed[i].total_duration_seconds]
        successful == Len(SelectSeq(reflections, LAMBDA r : r.success))
        NCards(st) == Len(SelectSeq(cards, LAMBDA c : c.status = st))
        NGoals(st) == Len(SelectSeq(goals, LAMBDA g : g.status = st))
    IN  [total_tasks |-> Len(reflections),
         successful_tasks |-> successful,
         failed_tasks |-> Len(reflections) - successful,
         avg_qa_iterations |->
             IF reflections # <<>> THEN Rat(SumSeq(qa_iters), Len(qa_iters)) ELSE Zero,
         total_qa_iterations |-> IF reflections # <<>> THEN SumSeq(qa_iters) ELSE 0,
         avg_task_duration_seconds |->
             IF reflections # <<>> /\ durations # <<>>
             THEN Rat(SumSeq(durations), Len(durations)) ELSE Zero,
         recurring_patterns_count |-> Len(patterns),
         cards_proposed |-> NCards("proposed"),
         cards_approved |-> NCards("approved"),
         cards_applied |-> NCards("applied"),
         cards_dismissed |-> NCards("dismissed"),
         active_goals |-> NGoals("active"),
         achieved_goals |-> NGoals("achieved")]

\* ------------------------------------- files the store did not write
\* What a file of the improvement directory holds: "sound" is the file as the
\* store left it (absent before its first save, its last write after), the
\* others are a file deleted, cut off in the middle of its JSON text, made
\* of bytes that are not UTF-8, holding the JSON array [1], and holding an
\* entry without keys ({"<name>": [{}]}).
FileNames == {"cards", "goals", "reflections", "patterns", "metrics"}
ListNames == FileNames \ {"metrics"}
Contents == {"sound", "removed", "truncated", "not_utf8", "array", "empty_entry"}
\* _load_json: {} for a missing file and for json.JSONDecodeError / IOError;
\* UnicodeDecodeError is a ValueError and is not caught
LoadJson(content) ==
    IF content \in {"removed", "truncated"} THEN [exc |-> None, data |-> "empty"]
    ELSE IF content = "not_utf8" THEN [exc |-> "UnicodeDecodeError", data |-> "empty"]
    ELSE [exc |-> None, data |-> content]
\* get_cards / get_goals / get_reflections / get_patterns after _load_json:
\* "data.get(name, []) if isinstance(data, dict) else data", then a
\* constructor call per entry with entry["id"], ...
Read(exc, list, metrics) == [exc |-> exc, list |-> list, metrics |-> metrics]
ReadList(content, stored) ==
    LET loaded == LoadJson(content)
    IN  IF loaded.exc # None THEN Read(loaded.exc, <<>>, DefaultMetrics)
        ELSE IF loaded.data = "array" THEN Read("TypeError", <<>>, DefaultMetrics)
        ELSE IF loaded.data = "empty_entry" THEN Read("KeyError", <<>>, DefaultMetrics)
        ELSE IF loaded.data = "empty" THEN Read(None, <<>>, DefaultMetrics)
        ELSE Read(None, stored, DefaultMetrics)
\* get_metrics: "if not data: return ImprovementMetrics()", else data.get(...)
\* key by key with the defaults
ReadMetrics(content, stored) ==
    LET loaded == LoadJson(content)
    IN  IF loaded.exc # None THEN Read(loaded.exc, <<>>, DefaultMetrics)
        ELSE IF loaded.data = "array" THEN Read("AttributeError", <<>>, DefaultMetrics)
        ELSE IF loaded.data \in {"empty", "empty_entry"} THEN Read(None, <<>>, DefaultMetrics)
        ELSE Read(None, <<>>, stored)
\* what a list file counts for in a read that did not raise
Readable(content, file) == IF content = "sound" THEN file ELSE <<>>
\* recalculate_metrics over the files as they are: get_reflections, get_cards,
\* get_goals, get_patterns in this order, the first exception leaves it
RecalculateFrom(dsk, reflFile, cFile, gFile, pFile) ==
    LET order == <<"reflections", "cards", "goals", "patterns">>
        failed == SelectSeq(order, LAMBDA n : ReadList(dsk[n], <<>>).exc # None)
    IN  IF failed # <<>>
        THEN Read(ReadList(dsk[Head(failed)], <<>>).exc, <<>>, DefaultMetrics)
        ELSE Read(None, <<>>,
                  RecalculateMetrics(Readable(dsk["reflections"], reflFile),
                                     Readable(dsk["cards"], cFile),
                                     Readable(dsk["goals"], gFile),
                                     Readable(dsk["patterns"], pFile)))

\* The dict _gather_metrics returns: kind tells which keys it has
\* ("value" | "discovery" | "pattern" | "empty"); "unbound" is the local
\* current_metrics of run before its first assignment.
MetricsDict(kind, value, discovered, high) ==
    [kind |-> kind, value |-> value, discovered |-> discovered, high_severity |-> high]
EmptyDict == MetricsDict("empty", Zero, 0, 0)
Unbound == MetricsDict("unbound", Zero, 0, 0)

\* c.type.value.lower() contains "discovery", or the title contains "Discovery"
IsDiscoveryCard(c) == c.type = "discovery" \/ Contains(c.title, <<"Discovery">>)

\* _gather_metrics, given the metrics recalculate_metrics just returned
GatherMetrics(goal, metrics, cFile, pFile) ==
    IF goal.type = "metric"
    THEN IF ~HasMetric(goal) THEN EmptyDict
         ELSE IF goal.metric.name = "avg_qa_iterations"
              THEN MetricsDict("value", metrics.avg_qa_iterations, 0, 0)
         ELSE IF goal.metric.name = "success_rate"
              THEN IF metrics.total_tasks > 0
                   THEN MetricsDict("value",
                            Rat(metrics.successful_tasks, metrics.total_tasks), 0, 0)
                   ELSE MetricsDict("value", Zero, 0, 0)
         ELSE IF goal.metric.name = "avg_task_duration"
              THEN MetricsDict("value", metrics.avg_task_duration_seconds, 0, 0)
         ELSE EmptyDict
    ELSE IF goal.type = "discovery"
    THEN MetricsDict("discovery", Zero,
             Len(SelectSeq(GetCardsForGoal(cFile, goal.id), IsDiscoveryCard)), 0)
    ELSE IF goal.type = "pattern_fix"
    THEN MetricsDict("pattern", Zero, 0,
             Len(SelectSeq(GetPatterns(pFile), LAMBDA p : p.severity = "high")))
    ELSE EmptyDict

\* metrics.get("value", 0), metrics.get("discovered", 0), metrics.get("high_severity", 0)
GetValue(m) == IF m.kind = "value" THEN m.value ELSE Zero
GetDiscovered(m) == IF m.kind = "discovery" THEN m.discovered ELSE 0
\* metrics.get of a key the dict never has
GetAbsentKey(m) == 0
GetHighSeverity(m) == IF m.kind = "pattern" THEN m.high_severity ELSE 0

LowerIsBetter == {"avg_qa_iterations", "avg_task_duration"}

\* _is_goal_achieved with "<" and ">" where the code has "<=" and ">="
IsGoalAchievedStrict(goal, m) ==
    IF goal.type = "metric" /\ HasMetric(goal)
    THEN IF goal.metric.name \in LowerIsBetter
         THEN Lt(GetValue(m), goal.metric.target)
         ELSE Gt(GetValue(m), goal.metric.target)
    ELSE IF goal.type = "discovery"
    THEN GetDiscovered(m) >= goal.discovery_count
    ELSE IF goal.type = "pattern_fix"
    THEN GetHighSeverity(m) = 0
    ELSE FALSE

\* _is_goal_achieved: the value it returns (its Discovery branch also writes
\* the goal; the steps that call it do that write)
IsGoalAchieved(goal, m) ==
    IF goal.type = "metric" /\ HasMetric(goal)
    THEN IF goal.metric.name \in LowerIsBetter
         THEN Le(GetValue(m), goal.metric.target)
         ELSE Ge(GetValue(m), goal.metric.target)
    ELSE IF goal.type = "discovery"
    THEN GetDiscovered(m) >= goal.discovery_count
    ELSE IF goal.type = "pattern_fix"
    THEN GetHighSeverity(m) = 0
    ELSE FALSE

\* ------------------------------------------------------ card proposal
\* uuid4-based ids are fresh; cards are never removed from cards.json
FreshCardId(cFile) == Len(cFile) + 1

NewCard(id, type, title) ==
    [id |-> id, type |-> type, title |-> title, status |-> "proposed",
     goal_id |-> None, applied_at |-> Never]

ReduceQaTitle ==
    <<"Reduce", " ", "QA", " ", "iterations", " ", "by", " ", "addressing",
      " ", "top", " ", "issues">>
SuccessRateTitle ==
    <<"Improve", " ", "success", " ", "rate", " ", "by", " ", "addressing",
      " ", "failure", " ", "patterns">>
\* f"Fix recurring {pattern.issue_type.replace('_', ' ')} issues"
PatternTitle(issue_type) ==
    <<"Fix", " ", "recurring", " ">> \o Replace(issue_type, "_", " ")
        \o <<" ", "issues">>
\* Discovery.to_card: f"New Tool: {self.name}"
NewToolTitle == <<"New", " ", "Tool:", " ", "x">>

\* What a proposal step hands back: the cards file after its saves, the new
\* cards (their ids) and the exception that escaped it, if any.
Proposal(cFile, cards, exc) == [file |-> cFile, cards |-> cards, exc |-> exc]

\* ReflectionEngine.propose_for_metric: at most one card, saved by the engine
ProposeForMetric(metric_name, current_value, target_value, reflFile, cFile) ==
    LET reflections == GetReflections(reflFile, ProposeWindow)
        high_qa_tasks ==
            SelectSeq(reflections, LAMBDA r : r.qa_iterations >= HighQaThreshold)
        failed_tasks == SelectSeq(reflections, LAMBDA r : ~r.success)
        id == FreshCardId(cFile)
        One(title) ==
            LET card == NewCard(id, "optimization", title)
            IN  Proposal(SaveCard(cFile, card), <<card>>, None)
    IN  IF metric_name = "avg_qa_iterations"
        THEN IF Gt(current_value, target_value) /\ high_qa_tasks # <<>>
             THEN One(ReduceQaTitle) ELSE Proposal(cFile, <<>>, None)
        ELSE IF metric_name = "success_rate"
        THEN IF Lt(current_value, target_value) /\ failed_tasks # <<>>
             THEN One(SuccessRateTitle) ELSE Proposal(cFile, <<>>, None)
        ELSE Proposal(cFile, <<>>, None)

\* "for card in cards: card.goal_id = goal.id; self.store.save_card(card)"
RECURSIVE LinkCards(_, _, _)
LinkCards(cFile, cards, goal_id) ==
    IF cards = <<>> THEN cFile
    ELSE LinkCards(SaveCard(cFile, [Head(cards) EXCEPT !.goal_id = goal_id]),
                   Tail(cards), goal_id)

\* The fields of the Discovery dataclass (models.py) and the keyword
\* arguments the engine's searches construct it with (search.py).
DiscoveryFields ==
    {"id", "source", "name", "description", "url", "relevance_score",
     "relevance_reasons", "package_name", "version", "mcp_server_id",
     "install_command", "stars", "last_updated", "created_at"}
DiscoveryRequired ==
    {"id", "source", "name", "description", "url", "relevance_score",
     "relevance_reasons"}
DiscoveryKwargs ==
    {"id", "source", "type", "name", "description", "url", "relevance_score",
     "metadata"}
DiscoveryCtorRaises ==
    ~(DiscoveryKwargs \subseteq DiscoveryFields /\ DiscoveryRequired \subseteq DiscoveryKwargs)
\* members of CardType; create_discovery_card asks for CardType.CODE
CardTypeMembers == {"REFLECTION", "DISCOVERY", "OPTIMIZATION"}

\* _search_source for a source whose response lists `found` items: building
\* the first Discovery raises, "except Exception" returns []
SearchSource(found) == IF found > 0 /\ DiscoveryCtorRaises THEN 0 ELSE found
\* discover(limit=...): how many discoveries it returns
Discover(limit, found) ==
    LET n == SearchSource(found) IN IF n < limit THEN n ELSE IF limit < 0 THEN 0 ELSE limit
\* search_for_goal: a card per discovery of discoveries[:target_count]
SearchForGoal(cFile, target_count, found) ==
    LET n == Discover(target_count * 2, found)
        k == IF n < target_count THEN n ELSE IF target_count < 0 THEN 0 ELSE target_count
    IN  IF k = 0 THEN Proposal(cFile, <<>>, None)
        ELSE IF "CODE" \notin CardTypeMembers THEN Proposal(cFile, <<>>, "AttributeError")
        ELSE Proposal(cFile, <<>>, None)

\* ------------------------------------------------- discovery search
\* A discovery is its url, its name and its relevance_score in hundredths.
Discovery(url, name, score) == [url |-> url, name |-> name, relevance_score |-> score]
\* str.lower() on the names in use
LowerName(name) == IF name = "Tool" THEN "tool" ELSE name
\* a filter that drops a discovery at the threshold as well
RECURSIVE FilterAbove(_, _)
FilterAbove(discoveries, acc) ==
    IF discoveries = <<>> THEN acc.filtered
    ELSE LET d == Head(discoveries)
         IN  IF d.url \in acc.seen_urls \/ LowerName(d.name) \in acc.seen_names
                  \/ d.relevance_score <= RelevanceThreshold
             THEN FilterAbove(Tail(discoveries), acc)
             ELSE FilterAbove(Tail(discoveries),
                      [seen_urls |-> acc.seen_urls \cup {d.url},
                       seen_names |-> acc.seen_names \cup {LowerName(d.name)},
                       filtered |-> Append(acc.filtered, d)])
\* _filter_and_deduplicate: "for d in discoveries", with seen_urls, seen_names
\* and filtered as they stand
RECURSIVE FilterAndDeduplicate(_, _)
FilterAndDeduplicate(discoveries, acc) ==
    IF discoveries = <<>> THEN acc.filtered
    ELSE LET d == Head(discoveries)
         IN  IF d.url \in acc.seen_urls \/ LowerName(d.name) \in acc.seen_names
             THEN FilterAndDeduplicate(Tail(discoveries), acc)
             ELSE IF d.relevance_score < RelevanceThreshold
             THEN FilterAndDeduplicate(Tail(discoveries), acc)
             ELSE FilterAndDeduplicate(Tail(discoveries),
                      [seen_urls |-> acc.seen_urls \cup {d.url},
                       seen_names |-> acc.seen_names \cup {LowerName(d.name)},
                       filtered |-> Append(acc.filtered, d)])
NothingSeen == [seen_urls |-> {}, seen_names |-> {}, filtered |-> <<>>]
\* discoveries.sort(key=lambda d: d.relevance_score, reverse=True): stable
SortByScore(seq) ==
    LET rank == [i \in 1..Len(seq) |->
                    1 + Cardinality({j \in 1..Len(seq) :
                          \/ seq[j].relevance_score > seq[i].relevance_score
                          \/ j < i /\ seq[j].relevance_score = seq[i].relevance_score})]
                \o <<>>
    IN  [k \in 1..Len(seq) |-> seq[CHOOSE i \in 1..Len(seq) : rank[i] = k]]
\* the end of discover: filter, sort, "return discoveries[:limit]" (limit >= 0)
FilterSortTruncate(discoveries, limit) ==
    Take(SortByScore(FilterAndDeduplicate(discoveries, NothingSeen)), limit)

\* The sources searched, in the order discover lists them, and what the
\* network answers a search with: a client error, or a status and the items
\* of the response (as discoveries-to-be).
SourceOrder == <<"mcp_servers", "github_repos">>
Sources == {SourceOrder[i] : i \in 1..Len(SourceOrder)}
Response(kind, status, items) == [kind |-> kind, status |-> status, items |-> items]
Found == Discovery("u1", "Tool", 50)
Responses ==
    {Response("error", 0, <<>>), Response("status", 500, <<>>),
     Response("status", 200, <<>>), Response("status", 200, <<Found>>)}
\* _search_mcp_servers and _search_github: the list built from a 200
\* response, a Discovery(...) call per item; _search_github catches
\* aiohttp.ClientError itself, _search_mcp_servers does not
Outcome(exc, list) == [exc |-> exc, list |-> list]
SearchType(type, response) ==
    IF response.kind = "error"
    THEN IF type = "github_repos" THEN Outcome(None, <<>>) ELSE Outcome("ClientError", <<>>)
    ELSE IF response.status # 200 THEN Outcome(None, <<>>)
    ELSE IF response.items # <<>> /\ DiscoveryCtorRaises THEN Outcome("TypeError", <<>>)
    ELSE Outcome(None, response.items)
\* _search_source at the second `now`, for the cache entry of its key: a
\* fresh entry is returned without a search; "except Exception" returns []
\* and leaves the cache alone; else the list is cached with the time
CacheEntry(has, at, list) == [has |-> has, at |-> at, list |-> list]
SearchSourceAt(entry, now, type, response) ==
    IF entry.has /\ now - entry.at < CacheDuration
    THEN [list |-> entry.list, entry |-> entry, called |-> FALSE]
    ELSE LET found == SearchType(type, response)
         IN  IF found.exc # None
             THEN [list |-> <<>>, entry |-> entry, called |-> TRUE]
             ELSE [list |-> found.list, entry |-> CacheEntry(TRUE, now, found.list),
                   called |-> TRUE]
\* "for result in results: if isinstance(result, list): discoveries.extend"
RECURSIVE Extend(_, _)
Extend(results, order) ==
    IF order = <<>> THEN <<>>
    ELSE results[Head(order)].list \o Extend(results, Tail(order))

\* the PatternFix branch of _propose_cards, pattern by pattern; for a pattern
\* whose issue_type is null, "pattern.issue_type in c.title.lower()" raises
\* TypeError at the first stored card, and with no card stored
\* _create_card_from_pattern raises AttributeError at issue_type.replace
RECURSIVE ProposeForPatterns(_, _, _)
ProposeForPatterns(patterns, goal_id, acc) ==
    IF patterns = <<>> THEN acc
    ELSE IF Head(patterns).issue_type = Null
    THEN Proposal(acc.file, acc.cards,
                  IF GetCards(acc.file) # <<>> THEN "TypeError" ELSE "AttributeError")
    ELSE LET pattern == Head(patterns)
             existing ==
                 SelectSeq(GetCards(acc.file),
                     LAMBDA c : /\ Contains(Lower(c.title), pattern.issue_type)
                                /\ c.status \in {"proposed", "approved"})
             card == [NewCard(FreshCardId(acc.file), "reflection",
                              PatternTitle(pattern.issue_type))
                          EXCEPT !.goal_id = goal_id]
         IN  IF existing = <<>>
             THEN ProposeForPatterns(Tail(patterns), goal_id,
                      Proposal(SaveCard(acc.file, card), Append(acc.cards, card), None))
             ELSE ProposeForPatterns(Tail(patterns), goal_id, acc)

\* _propose_cards
ProposeCards(goal, m, reflFile, cFile, pFile, found) ==
    IF goal.type = "metric" /\ HasMetric(goal)
    THEN LET p == ProposeForMetric(goal.metric.name, GetValue(m),
                      goal.metric.target, reflFile, cFile)
             linked == [i \in 1..Len(p.cards) |-> [p.cards[i] EXCEPT !.goal_id = goal.id]]
         IN  Proposal(LinkCards(p.file, p.cards, goal.id), linked, None)
    ELSE IF goal.type = "discovery"
    THEN LET p == SearchForGoal(cFile, goal.discovery_count - GetDiscovered(m), found)
         IN  IF p.exc # None THEN p
             ELSE Proposal(LinkCards(p.file, p.cards, goal.id), p.cards, None)
    ELSE IF goal.type = "pattern_fix"
    THEN ProposeForPatterns(
             SelectSeq(GetPatterns(pFile), LAMBDA p : p.severity = "high"),
             goal.id, Proposal(cFile, <<>>, None))
    ELSE Proposal(cFile, <<>>, None)

\* -------------------------------------------------- reflection engine
\* _detect_patterns: the issue types of the reflections, in the order the
\* grouping dict meets them, one entry per reflection and issue type
RECURSIVE FlattenTypes(_)
FlattenTypes(reflections) ==
    IF reflections = <<>> THEN <<>>
    ELSE Head(reflections).issue_types \o FlattenTypes(Tail(reflections))
RECURSIVE Distinct(_)
Distinct(seq) ==
    IF seq = <<>> THEN <<>>
    ELSE LET d == Distinct(SubSeq(seq, 1, Len(seq) - 1))
             x == seq[Len(seq)]
         IN  IF \E i \in 1..Len(d) : d[i] = x THEN d ELSE Append(d, x)

\* _calculate_severity
HighSeverityTypes == {<<"security">>, <<"runtime", "_", "error">>, TypeError}
MediumSeverityTypes == {<<"test", "_", "failure">>, <<"missing", "_", "feature">>}
CalculateSeverity(issue_type, occurrences) ==
    IF issue_type \in HighSeverityTypes \/ occurrences >= 5 THEN "high"
    ELSE IF issue_type \in MediumSeverityTypes \/ occurrences >= 3 THEN "medium"
    ELSE "low"

\* _detect_patterns: a Pattern per issue type met PatternThreshold times
DetectPatterns(reflections) ==
    LET met == FlattenTypes(reflections)
        recurring == SelectSeq(Distinct(met), LAMBDA t : Count(met, t) >= PatternThreshold)
    IN  [k \in 1..Len(recurring) |->
            [issue_type |-> recurring[k],
             occurrences |-> Count(met, recurring[k]),
             severity |-> CalculateSeverity(recurring[k], Count(met, recurring[k]))]]

\* f"Reduce QA iterations for {reflection.spec_id}"
HighQaTitle ==
    <<"Reduce", " ", "QA", " ", "iterations", " ", "for", " ", "spec">>

\* the loop of _analyze_and_generate_cards over the detected patterns:
\* cards.json and patterns.json after it
RECURSIVE CardsForPatterns(_, _)
CardsForPatterns(patterns, acc) ==
    IF patterns = <<>> THEN acc
    ELSE LET pattern == Head(patterns)
             has_active ==
                 \E i \in 1..Len(acc.cards) :
                     LET c == GetCards(acc.cards)[i]
                     IN  /\ c.status \in {"proposed", "approved"}
                         /\ Contains(Lower(c.title), pattern.issue_type)
             card == NewCard(FreshCardId(acc.cards), "reflection",
                             PatternTitle(pattern.issue_type))
             stored == [id |-> Len(acc.patterns) + 1,
                        issue_type |-> pattern.issue_type,
                        severity |-> pattern.severity,
                        occurrences |-> pattern.occurrences]
         IN  IF has_active
             THEN CardsForPatterns(Tail(patterns), acc)
             ELSE CardsForPatterns(Tail(patterns),
                      [cards |-> SaveCard(acc.cards, card),
                       patterns |-> SavePattern(acc.patterns, stored)])

\* _analyze_and_generate_cards(reflection)
AnalyzeAndGenerateCards(reflection, reflFile, cFile, pFile) ==
    LET reflections == GetReflections(reflFile, AnalysisWindow)
        after == CardsForPatterns(DetectPatterns(reflections),
                                  [cards |-> cFile, patterns |-> pFile])
    IN  IF reflection.qa_iterations >= HighQaIterations
        THEN [after EXCEPT !.cards =
                 SaveCard(@, NewCard(FreshCardId(@), "reflection", HighQaTitle))]
        ELSE after

\* ------------------------------------------------------------ results
\* The fields of the LoopResult dataclass (models.py): its generated
\* __init__ accepts these keywords and no other.
LoopResultFields ==
    {"status", "iterations", "cards_generated", "cards_approved",
     "cards_applied", "final_metrics"}

\* What a call leaves its caller with.
NoResult ==
    [kind |-> "none", exc |-> None, status |-> None, iterations |-> 0,
     cards_proposed |-> 0]
Raised(exc) == [NoResult EXCEPT !.kind = "raised", !.exc = exc]

\* LoopResult(**kwargs): keys are the keywords of the call
Kwargs(keys, status, iterations, cards_proposed) ==
    [keys |-> keys, status |-> status, iterations |-> iterations,
     cards_proposed |-> cards_proposed]
LoopResult(kw) ==
    IF kw.keys \subseteq LoopResultFields
    THEN [kind |-> "returned", exc |-> None, status |-> kw.status,
          iterations |-> kw.iterations, cards_proposed |-> kw.cards_proposed]
    ELSE Raised("TypeError")

\* the keywords of the LoopResult calls in loop.py
PlainKeys == {"status", "iterations", "final_metrics", "message"}
AwaitingKeys == PlainKeys \cup {"cards_proposed"}

\* -------------------------------------------------------------- state
VARIABLES
    heap,             \* the goal objects the caller holds, by handle
    goalsFile,        \* goals.json: the list under "goals"
    cardsFile,        \* cards.json: the list under "cards"
    reflectionsFile,  \* reflections.json
    patternsFile,     \* patterns.json
    metricsFile,      \* metrics.json
    pc,               \* where the call in progress stands ("idle": none)
    frame,            \* the locals of the call in progress
    result,           \* what the last run / resume call left its caller with
    exitAt,           \* the return statement that call reached
    trace,            \* the steps of that call, in order
    driver,           \* the calling program, when it is the run / resume driver
    hand,             \* the card object a caller of the store holds
    saved,            \* every reflection handed to save_reflection so far
    disk,             \* per file of the store, what it holds (Contents)
    answer,           \* what the last direct read of the store handed back
    search,           \* the discovery engine (cache: _cache and _cache_times),
                      \* the clock (now), what the network last answered each
                      \* source and when (searched), and the discover call in
                      \* progress: the sources it called, what it gathered,
                      \* its limit and what it returned
    simple,           \* run_simple_task_loop: its locals, the agent sessions
                      \* and oracle runs so far, and what it returned
    tool,             \* the invocation of the memory query tool: its command
                      \* line and environment, the lines it wrote to standard
                      \* output and its exit code
    writers,          \* the invocations that save cards into the same project
                      \* directory: where each stands in save_card, its card
                      \* and the list it loaded
    vercel            \* the Vercel monitor and fix loop: the wait in progress,
                      \* the deployment state in hand and the one saved, the
                      \* locals of the fix loop, what was written and returned

vars ==
    <<heap, goalsFile, cardsFile, reflectionsFile, patternsFile, metricsFile,
      pc, frame, result, exitAt, trace, driver, hand, saved, disk, answer,
      search, simple, vercel, tool, writers>>
\* the state outside the improvement loop and its callers
beyond == <<vercel, tool, writers>>
others == <<disk, answer, search, simple, beyond>>
files == <<goalsFile, cardsFile, reflectionsFile, patternsFile, metricsFile>>

Handles == {"h1", "h2"}

\* the goals the caller creates: a metric goal per metric name and target,
\* a metric-typed goal without a metric, discovery goals, a pattern-fix goal
MetricGoals ==
    { [name |-> "avg_qa_iterations", target |-> Rat(2, 1)],
      [name |-> "success_rate", target |-> Rat(1, 2)],
      [name |-> "avg_task_duration", target |-> Rat(1, 1)],
      [name |-> "cards_applied", target |-> Rat(0, 1)],
      [name |-> "cards_applied", target |-> Rat(1, 1)] }
InitialGoals ==
    { NewGoal(G1, "metric", m, 0) : m \in MetricGoals }
        \cup { NewGoal(G1, "metric", NoMetric, 0) }
        \cup { NewGoal(G1, "discovery", NoMetric, k) : k \in 1..2 }
        \cup { NewGoal(G1, "pattern_fix", NoMetric, 0) }

\* the task reflections that get saved: (success, qa_iterations, duration)
TaskReflection(success, qa, duration, issue_types, created_at) ==
    [success |-> success, qa_iterations |-> qa, total_duration_seconds |-> duration,
     issue_types |-> issue_types, created_at |-> created_at]
Reflection(success, qa, duration) == TaskReflection(success, qa, duration, <<>>, Epoch)
ReflectionKinds ==
    { Reflection(TRUE, 1, 2), Reflection(FALSE, 3, 0) }

NoFrame ==
    [goal |-> "h1", entry |-> None, iteration |-> 0, max_iterations |-> 0,
     current_metrics |-> Unbound, cards |-> <<>>, approved_cards |-> 0,
     cards0 |-> 0, goals0 |-> <<>>, found |-> 0]

\* The driver of the loop: it calls run once, and after each awaiting_user
\* it calls resume with the iterations of the previous result.
NoDriver ==
    [on |-> FALSE, max_iterations |-> 0, passes |-> 0, iterations |-> 0,
     status |-> None]

\* cards that were in cards.json, dismissed, before the goal was created
ArchivedTitle == <<"archived">>
Archived(id) ==
    CardToDict([NewCard(id, "reflection", ArchivedTitle)
                    EXCEPT !.status = "dismissed", !.goal_id = G1])
CardsMade(cFile) == Len(SelectSeq(cFile, LAMBDA c : c.title # ArchivedTitle))

\* no read of the store has answered
NoAnswer == [call |-> None, exc |-> None, list |-> <<>>, metrics |-> DefaultMetrics]

\* a new DiscoveryEngine (empty _cache and _cache_times) at the second 0,
\* before its first discover
NoSearch ==
    [cache |-> [src \in Sources |-> CacheEntry(FALSE, 0, <<>>)],
     now |-> 0,
     searched |-> [src \in Sources |->
                      [done |-> FALSE, at |-> 0, response |-> Response("error", 0, <<>>)]],
     called |-> {}, gathered |-> <<>>, limit |-> 0, returned |-> <<>>]

\* no simple task loop has been called
NoSimple ==
    [entered |-> FALSE, iteration |-> 0, max_iterations |-> 0, sessions |-> 0,
     failed |-> 0, oracle |-> <<>>, raised |-> None, returned |-> None]

\* VercelDeploymentState: errors is the list of error dicts, fix_history the
\* list of the dicts record_fix_attempt appends (attempt and success kept)
DeploymentState(deployment_id, status, error_message, errors, fix_attempts, fix_history) ==
    [deployment_id |-> deployment_id, status |-> status,
     error_message |-> error_message, errors |-> errors,
     fix_attempts |-> fix_attempts, fix_history |-> fix_history]
\* VercelDeploymentState(): the dataclass defaults
DefaultState == DeploymentState(None, "QUEUED", None, <<>>, 0, <<>>)
\* is_ready, is_failed
IsReady(state) == state.status = "READY"
IsFailed(state) == state.status = "ERROR"
\* record_fix_attempt: fix_attempts += 1, then one more entry
RecordFixAttempt(state, success) ==
    [state EXCEPT !.fix_attempts = @ + 1,
                  !.fix_history = Append(@, [attempt |-> state.fix_attempts + 1,
                                             success |-> success])]
\* neither .vercel_deployment.json nor VERCEL_ESCALATION.md written
NoFile == [written |-> FALSE, state |-> DefaultState]
NoReport == [written |-> FALSE, attempts |-> <<>>]
\* no monitor and no fix loop has been called
NoVercel ==
    [entry |-> None, waiting |-> None, elapsed |-> 0,
     timed_out |-> FALSE, fresh |-> DefaultState, state |-> DefaultState,
     file |-> NoFile,
     auto_fix |-> FALSE, initial |-> 0, fix_attempt |-> 0, errors |-> "unbound",
     sessions |-> 0, report |-> NoReport,
     raised |-> None, returned |-> None]

\* the environment of an invocation of the query tool: is kuzu or LadybugDB
\* importable, what is at db_path, does db_path/database exist, can it be
\* opened, what a query comes to, is GRAPHITI_EMBEDDER_PROVIDER set, what
\* the Graphiti search comes to
ToolEnv(backend, path, database, opens, query, embedder, semantic) ==
    [backend |-> backend, path |-> path, database |-> database, opens |-> opens,
     query |-> query, embedder |-> embedder, semantic |-> semantic]
\* the tool has not been invoked
NoTool ==
    [command |-> None, env |-> ToolEnv(FALSE, "missing", FALSE, FALSE, "rows", FALSE, "found"),
     stdout |-> <<>>, exited |-> FALSE, code |-> 0]
\* the invocations on one project directory
Writers == {"a", "b"}

\* no card in hand
NoCard == [NewCard(0, None, <<>>) EXCEPT !.status = None]
\* an invocation that is not inside save_card and has saved nothing
NoWriter ==
    [at |-> "idle", card |-> NoCard, data |-> <<>>, saves |-> 0, alone |-> TRUE,
     clobbered |-> FALSE]

\* a new goal in the caller's hands, `archived` old cards in the store and
\* the reflections `earlier`, saved one after the other
StartFrom(archived, drv, earlier, at, srch) ==
    /\ \E g \in InitialGoals : heap = [h \in Handles |-> IF h = "h1" THEN g ELSE NoGoal]
    /\ goalsFile = <<>>
    /\ cardsFile = [i \in 1..archived |-> Archived(i)]
    /\ reflectionsFile = [i \in 1..Len(earlier) |-> ReflectionToDict(earlier[i])]
    /\ patternsFile = <<>>
    /\ metricsFile = DefaultMetrics
    /\ pc = at
    /\ frame = NoFrame
    /\ result = NoResult
    /\ exitAt = None
    /\ trace = <<>>
    /\ driver = drv
    /\ hand = NoCard
    /\ saved = earlier
    /\ disk = [n \in FileNames |-> "sound"]
    /\ answer = NoAnswer
    /\ search = srch
    /\ simple = NoSimple
    /\ vercel = NoVercel
    /\ tool = NoTool
    /\ writers = [w \in Writers |-> NoWriter]
StartWith(archived, drv, earlier) == StartFrom(archived, drv, earlier, "idle", NoSearch)
Start(archived, drv) == StartWith(archived, drv, <<>>)

Init == Start(0, NoDriver)

Goal == heap[frame.goal]
Finish(res, at) == pc' = "done" /\ result' = res /\ exitAt' = at
\* the driver goes by the return statement a call reached and by the
\* iterations that statement reports, also when building the result raised
Tell ==
    driver' =
        IF driver.on /\ pc' = "done"
        THEN [driver EXCEPT !.status = IF exitAt' = None THEN "raised" ELSE exitAt',
                            !.iterations = frame.iteration]
        ELSE driver
\* what a step of run / resume_after_user_action leaves alone
Aside == UNCHANGED <<hand, saved, others>>

\* ----------------------------------------------- the caller, between calls
\* store.save_reflection(reflection)
SaveReflectionCall(r) ==
    /\ pc = "idle"
    /\ heap["h1"].type = "metric"
    /\ Len(reflectionsFile) < MaxReflections
    /\ LET now == [r EXCEPT !.created_at = Time(Len(saved) + 1, 0)]
       IN  /\ reflectionsFile' = SaveReflection(reflectionsFile, now)
           /\ saved' = Append(saved, now)
    /\ UNCHANGED <<heap, goalsFile, cardsFile, patternsFile, metricsFile,
                   pc, frame, result, exitAt, trace, driver, others, hand>>

\* store.save_pattern(pattern) for a newly detected pattern
SavePatternCall(issue_type, severity) ==
    /\ pc = "idle"
    /\ heap["h1"].type = "pattern_fix"
    /\ Len(patternsFile) < MaxPatterns
    /\ patternsFile' =
           SavePattern(patternsFile,
               [id |-> Len(patternsFile) + 1, issue_type |-> issue_type,
                severity |-> severity])
    /\ UNCHANGED <<heap, goalsFile, cardsFile, reflectionsFile, metricsFile,
                   pc, frame, result, exitAt, trace, driver, others, hand, saved>>

\* store.save_card(discovery.to_card(goal_id)): a discovery card from outside
\* the loop
SaveCardCall(goal_id) ==
    /\ pc = "idle"
    /\ heap["h1"].type = "discovery"
    /\ CardsMade(cardsFile) < MaxCards
    /\ cardsFile' =
           SaveCard(cardsFile,
               [NewCard(FreshCardId(cardsFile), "discovery", NewToolTitle)
                   EXCEPT !.goal_id = goal_id])
    /\ UNCHANGED <<heap, goalsFile, reflectionsFile, patternsFile, metricsFile,
                   pc, frame, result, exitAt, trace, driver, others, hand, saved>>

\* store.update_card_status(card_id, status): the user reviews a card, then
\* applies an approved one
Reviews ==
    {<<"proposed", "approved">>, <<"proposed", "dismissed">>,
     <<"approved", "applied">>}
UpdateCardStatusCall(id, status) ==
    /\ pc = "idle"
    /\ HasCard(cardsFile, id)
    /\ <<GetCard(cardsFile, id).status, status>> \in Reviews
    /\ cardsFile' = UpdateCardStatus(cardsFile, id, status, Now)
    /\ UNCHANGED <<heap, goalsFile, reflectionsFile, patternsFile, metricsFile,
                   pc, frame, result, exitAt, trace, driver, others, hand, saved>>

\* store.get_goal(goal_id): the caller loads another copy of the goal
GetGoalCall(h) ==
    /\ pc = "idle"
    /\ h = "h2"
    /\ HasGoal(goalsFile, G1)
    /\ heap[h] # GetGoal(goalsFile, G1)
    /\ heap' = [heap EXCEPT ![h] = GetGoal(goalsFile, G1)]
    /\ UNCHANGED <<files, pc, frame, result, exitAt, trace, driver, others, hand, saved>>

\* store.save_goal(goal), called directly; to_dict raises for a goal whose
\* type is a plain string, and nothing is written
SaveGoalCall(h) ==
    /\ pc = "idle"
    /\ heap[h] # NoGoal
    /\ CanSerialize(heap[h])
    /\ goalsFile' = SaveGoal(goalsFile, heap[h])
    /\ goalsFile' # goalsFile
    /\ UNCHANGED <<heap, cardsFile, reflectionsFile, patternsFile, metricsFile,
                   pc, frame, result, exitAt, trace, driver, others, hand, saved>>

\* the user abandons an active goal: goal.status = GoalStatus.ABANDONED, saved
AbandonGoalCall(h) ==
    /\ pc = "idle"
    /\ heap[h] # NoGoal
    /\ heap[h].status = "active"
    /\ CanSerialize(heap[h])
    /\ heap' = [heap EXCEPT ![h].status = "abandoned"]
    /\ goalsFile' = SaveGoal(goalsFile, heap'[h])
    /\ UNCHANGED <<cardsFile, reflectionsFile, patternsFile, metricsFile,
                   pc, frame, result, exitAt, trace, driver, others, hand, saved>>

\* ------------------------------------------------- ImprovementLoop.run
NewFrame(h, entry, iteration, max_iterations) ==
    [goal |-> h, entry |-> entry, iteration |-> iteration,
     max_iterations |-> max_iterations, current_metrics |-> Unbound,
     cards |-> <<>>, approved_cards |-> 0,
     cards0 |-> Len(cardsFile), goals0 |-> goalsFile, found |-> 0]

\* a call is entered
Enter(h, entry, iteration, max_iterations, at) ==
    /\ pc = "idle"
    /\ heap[h] # NoGoal
    /\ CardsMade(cardsFile) < MaxCards
    /\ frame' = NewFrame(h, entry, iteration, max_iterations)
    /\ pc' = at
    /\ UNCHANGED <<heap, files, result, exitAt, trace>>

\* run(goal, max_iterations) is entered: iteration = 0
RunCall(h, max_iterations) ==
    /\ ~driver.on
    /\ Enter(h, "run", 0, max_iterations, "run_save_goal")
    /\ UNCHANGED <<driver, others, hand, saved>>

\* the driver's first call: run(goal, max_iterations)
DriverRun(max_iterations) ==
    /\ driver.on
    /\ driver.status = None
    /\ Enter("h1", "run", 0, max_iterations, "run_save_goal")
    /\ driver' = [driver EXCEPT !.max_iterations = max_iterations, !.status = "running"]
    /\ Aside

\* self.store.save_goal(goal)
RunSaveGoal ==
    /\ pc = "run_save_goal"
    /\ IF CanSerialize(Goal)
       THEN /\ goalsFile' = SaveGoal(goalsFile, Goal)
            /\ pc' = "run_loop"
            /\ trace' = Append(trace, "save_goal")
            /\ UNCHANGED <<result, exitAt>>
       ELSE /\ Finish(Raised("AttributeError"), None)
            /\ UNCHANGED <<goalsFile, trace>>
    /\ UNCHANGED <<heap, cardsFile, reflectionsFile, patternsFile, metricsFile, frame>>
    /\ Tell
    /\ Aside

\* "while iteration < max_iterations: iteration += 1"
RunLoop ==
    /\ pc = "run_loop"
    /\ IF frame.iteration < frame.max_iterations
       THEN /\ frame' = [frame EXCEPT !.iteration = @ + 1]
            /\ pc' = "run_gather"
       ELSE /\ pc' = "run_exhausted"
            /\ UNCHANGED frame
    /\ driver' = IF driver.on /\ pc' = "run_gather"
                 THEN [driver EXCEPT !.passes = @ + 1] ELSE driver
    /\ Aside
    /\ UNCHANGED <<heap, files, result, exitAt, trace>>

\* current_metrics = self._gather_metrics(goal)
Gather(next) ==
    LET metrics == RecalculateMetrics(reflectionsFile, cardsFile, goalsFile, patternsFile)
    IN  /\ metricsFile' = metrics
        /\ frame' = [frame EXCEPT
               !.current_metrics = GatherMetrics(Goal, metrics, cardsFile, patternsFile),
               !.approved_cards =
                   Len(SelectSeq(GetCardsForGoal(cardsFile, Goal.id),
                                 LAMBDA c : c.status = "approved"))]
        /\ pc' = next
        /\ trace' = Append(trace, "gather")
        /\ UNCHANGED <<heap, goalsFile, cardsFile, reflectionsFile, patternsFile,
                       result, exitAt, driver, others, hand, saved>>

RunGather == pc = "run_gather" /\ Gather("run_check")

\* "if self._is_goal_achieved(goal, current_metrics)": the Discovery branch
\* sets goal.discovered_so_far and saves the goal before it answers
Check(ifTrue, ifFalse) ==
    LET achieved == IsGoalAchieved(Goal, frame.current_metrics)
        synced == [Goal EXCEPT !.discovered_so_far = GetDiscovered(frame.current_metrics)]
    IN  IF Goal.type = "discovery"
        THEN /\ heap' = [heap EXCEPT ![frame.goal] = synced]
             /\ IF CanSerialize(synced)
                THEN /\ goalsFile' = SaveGoal(goalsFile, synced)
                     /\ pc' = IF achieved THEN ifTrue ELSE ifFalse
                     /\ trace' = Append(trace, IF achieved THEN "check_true" ELSE "check_false")
                     /\ UNCHANGED <<result, exitAt>>
                ELSE /\ Finish(Raised("AttributeError"), None)
                     /\ UNCHANGED <<goalsFile, trace>>
             /\ UNCHANGED <<cardsFile, reflectionsFile, patternsFile, metricsFile, frame>>
        ELSE /\ pc' = IF achieved THEN ifTrue ELSE ifFalse
             /\ trace' = Append(trace, IF achieved THEN "check_true" ELSE "check_false")
             /\ UNCHANGED <<heap, files, frame, result, exitAt>>

\* run proposing cards without asking whether the goal is achieved
RunCheckSkipped ==
    /\ pc = "run_check"
    /\ pc' = "run_propose"
    /\ UNCHANGED <<heap, goalsFile, cardsFile, reflectionsFile, patternsFile,
                   metricsFile, frame, result, exitAt, trace, driver, others, hand, saved>>

RunCheck == pc = "run_check" /\ Check("run_achieved", "run_propose") /\ Tell /\ Aside

\* goal.status = ACHIEVED; goal.achieved_at = now(); save_goal(goal);
\* return LoopResult(status="achieved", ...)
Achieved ==
    LET done == [Goal EXCEPT !.status = "achieved", !.achieved_at = "ts"]
    IN  /\ heap' = [heap EXCEPT ![frame.goal] = done]
        /\ IF CanSerialize(done)
           THEN /\ goalsFile' = SaveGoal(goalsFile, done)
                /\ Finish(LoopResult(Kwargs(PlainKeys, "achieved", frame.iteration, 0)),
                          "achieved")
           ELSE /\ Finish(Raised("AttributeError"), None)
                /\ UNCHANGED goalsFile
        /\ UNCHANGED <<cardsFile, reflectionsFile, patternsFile, metricsFile, frame, trace>>

RunAchieved == pc = "run_achieved" /\ Achieved /\ Tell /\ Aside

\* cards = await self._propose_cards(goal, current_metrics)
RunPropose ==
    /\ pc = "run_propose"
    /\ \E found \in 0..1 :
         LET p == ProposeCards(Goal, frame.current_metrics, reflectionsFile,
                               cardsFile, patternsFile, found)
         IN  /\ cardsFile' = p.file
             /\ frame' = [frame EXCEPT
                    !.cards = [i \in 1..Len(p.cards) |-> p.cards[i].id],
                    !.found = IF Goal.type = "discovery" THEN found ELSE 0]
             /\ trace' = Append(trace, "propose")
             /\ IF p.exc = None
                THEN pc' = "run_decide" /\ UNCHANGED <<result, exitAt>>
                ELSE Finish(Raised(p.exc), None)
    /\ UNCHANGED <<heap, goalsFile, reflectionsFile, patternsFile, metricsFile>>
    /\ Tell
    /\ Aside

\* "if not cards: ... return no_proposals" and "return awaiting_user"
RunDecide ==
    /\ pc = "run_decide"
    /\ LET pending_cards ==
               SelectSeq(GetCardsForGoal(cardsFile, Goal.id),
                         LAMBDA c : c.status = "proposed")
       IN  IF frame.cards = <<>> /\ pending_cards = <<>>
           THEN Finish(LoopResult(Kwargs(PlainKeys, "no_proposals", frame.iteration, 0)),
                       "no_proposals")
           ELSE Finish(LoopResult(Kwargs(AwaitingKeys, "awaiting_user", frame.iteration,
                                         Len(frame.cards))),
                       "awaiting_user")
    /\ UNCHANGED <<heap, files, frame, trace>>
    /\ Tell
    /\ Aside

\* after the loop: LoopResult(status="max_iterations", ...,
\* final_metrics=current_metrics, ...) reads a local that no pass assigned
RunExhausted ==
    /\ pc = "run_exhausted"
    /\ IF frame.current_metrics = Unbound
       THEN Finish(Raised("UnboundLocalError"), "max_iterations")
       ELSE Finish(LoopResult(Kwargs(PlainKeys, "max_iterations", frame.iteration, 0)),
                   "max_iterations")
    /\ UNCHANGED <<heap, files, frame, trace>>
    /\ Tell
    /\ Aside

\* --------------------------- ImprovementLoop.resume_after_user_action
ResumeCall(h, iteration, max_iterations) ==
    /\ ~driver.on
    /\ Enter(h, "resume", iteration, max_iterations, "resume_gather")
    /\ UNCHANGED <<driver, others, hand, saved>>

\* the driver's next call, after awaiting_user:
\* resume_after_user_action(goal, result.iterations, max_iterations)
DriverResume ==
    /\ driver.on
    /\ driver.status = "awaiting_user"
    /\ driver.passes <= MaxIter
    /\ Enter("h1", "resume", driver.iterations, driver.max_iterations, "resume_gather")
    /\ driver' = [driver EXCEPT !.status = "running"]
    /\ Aside

\* current_metrics = self._gather_metrics(goal); approved_cards = [...]
ResumeGather == pc = "resume_gather" /\ Gather("resume_check")

ResumeCheck == pc = "resume_check" /\ Check("resume_achieved", "resume_stalled") /\ Tell /\ Aside

ResumeAchieved == pc = "resume_achieved" /\ Achieved /\ Tell /\ Aside

\* "if not approved_cards: ... if len(dismissed_cards) > 5: return stalled",
\* else "return await self.run(goal, max_iterations - iteration)"
ResumeStalled ==
    /\ pc = "resume_stalled"
    /\ LET dismissed_cards ==
               SelectSeq(GetCardsForGoal(cardsFile, Goal.id),
                         LAMBDA c : c.status = "dismissed")
       IN  IF frame.approved_cards = 0 /\ Len(dismissed_cards) > StallThreshold
           THEN /\ Finish(LoopResult(Kwargs(PlainKeys, "stalled", frame.iteration, 0)),
                          "stalled")
                /\ UNCHANGED <<frame, trace>>
           ELSE /\ frame' = [frame EXCEPT
                       !.iteration = 0,
                       !.max_iterations = frame.max_iterations - frame.iteration,
                       !.current_metrics = Unbound]
                /\ pc' = "run_save_goal"
                /\ trace' = Append(trace, "run")
                /\ UNCHANGED <<result, exitAt>>
    /\ UNCHANGED <<heap, files>>
    /\ Tell
    /\ Aside

\* the awaiting caller takes the result (or the exception); the call's frame
\* is gone
Return ==
    /\ pc = "done"
    /\ pc' = "idle"
    /\ frame' = NoFrame
    /\ result' = NoResult
    /\ exitAt' = None
    /\ trace' = <<>>
    /\ answer' = NoAnswer
    /\ UNCHANGED <<heap, files, driver, hand, saved, disk, search, simple, beyond>>

\* ------------------------------------------- a caller of the card store
\* Every step below is one call by a program that holds card objects and
\* uses the store directly; no run of the loop is in progress.
StoreIdle ==
    /\ pc = "idle"
    /\ UNCHANGED <<heap, goalsFile, reflectionsFile, patternsFile, metricsFile,
                   pc, frame, result, exitAt, trace, driver, others, saved>>
CardTitles == {NewToolTitle, ReduceQaTitle}
\* datetime.now() inside apply(): with and without a fraction of a second
CardTimes == {Time(1, 0), Time(1, 1)}

\* ImprovementCard.create(...)
CardCreate(title) ==
    /\ StoreIdle
    /\ CardsMade(cardsFile) < MaxCards
    /\ hand' = NewCard(FreshCardId(cardsFile), "reflection", title)
    /\ UNCHANGED cardsFile
\* card.approve() / card.dismiss() / card.apply() on the card in hand
CardApprove ==
    /\ StoreIdle
    /\ hand # NoCard
    /\ hand' = WithStatus(hand, "approved", Now)
    /\ UNCHANGED cardsFile
CardDismiss ==
    /\ StoreIdle
    /\ hand # NoCard
    /\ hand' = WithStatus(hand, "dismissed", Now)
    /\ UNCHANGED cardsFile
CardApply(now) ==
    /\ StoreIdle
    /\ hand # NoCard
    /\ hand' = WithStatus(hand, "applied", now)
    /\ UNCHANGED cardsFile
\* store.save_card(card)
StoreSaveCard ==
    /\ StoreIdle
    /\ hand # NoCard
    /\ cardsFile' = SaveCard(cardsFile, hand)
    /\ UNCHANGED hand
\* card = store.get_card(card_id)
StoreGetCard(id) ==
    /\ StoreIdle
    /\ hand' = IF HasCard(cardsFile, id) THEN GetCard(cardsFile, id) ELSE NoCard
    /\ UNCHANGED cardsFile
\* card = store.update_card_status(card_id, status), any status
StoreUpdateCardStatus(id, status, now) ==
    /\ StoreIdle
    /\ cardsFile' = UpdateCardStatus(cardsFile, id, status, now)
    /\ hand' = IF HasCard(cardsFile, id) THEN GetCard(cardsFile', id) ELSE NoCard

\* ------------------------------------- a caller of save_reflection
\* store.save_reflection(reflection) with a created_at of the caller's choice
StoreSaveReflection(r) ==
    /\ pc = "idle"
    /\ Len(saved) < ReflectionCap - 1 + MaxCapSaves
    /\ reflectionsFile' = SaveReflection(reflectionsFile, r)
    /\ saved' = Append(saved, r)
    /\ UNCHANGED <<heap, goalsFile, cardsFile, patternsFile, metricsFile,
                   pc, frame, result, exitAt, trace, driver, others, hand>>

\* ------------------------- ReflectionEngine.run_post_task_reflection
\* The tasks that complete: one with a type error, one with a performance
\* issue, one that failed and took three QA iterations.
TaskKinds ==
    {TaskReflection(TRUE, 1, 2, <<TypeError>>, Epoch),
     TaskReflection(TRUE, 1, 2, <<Performance>>, Epoch),
     TaskReflection(FALSE, 3, 0, <<>>, Epoch)}
ReflectSteps == <<"save_reflection", "analyze", "recalculate_metrics">>

\* reflection = create_task_reflection(...); self.store.save_reflection(reflection)
ReflectCall(r) ==
    /\ pc = "idle"
    /\ Len(saved) < MaxTasks
    /\ LET reflection == [r EXCEPT !.created_at = Time(Len(saved) + 1, 0)]
       IN  /\ reflectionsFile' = SaveReflection(reflectionsFile, reflection)
           /\ saved' = Append(saved, reflection)
    /\ pc' = "reflect_analyze"
    /\ trace' = <<ReflectSteps[1]>>
    /\ UNCHANGED <<heap, goalsFile, cardsFile, patternsFile, metricsFile,
                   frame, result, exitAt, driver, others, hand>>
\* await self._analyze_and_generate_cards(reflection)
ReflectAnalyze ==
    /\ pc = "reflect_analyze"
    /\ LET after == AnalyzeAndGenerateCards(saved[Len(saved)], reflectionsFile,
                                            cardsFile, patternsFile)
       IN  /\ cardsFile' = after.cards
           /\ patternsFile' = after.patterns
    /\ pc' = "reflect_recalc"
    /\ trace' = Append(trace, ReflectSteps[2])
    /\ UNCHANGED <<heap, goalsFile, reflectionsFile, metricsFile,
                   frame, result, exitAt, driver, others, hand, saved>>
\* a step that returns without recalculating the metrics
ReflectRecalcSkipped ==
    /\ pc = "reflect_recalc"
    /\ pc' = "done"
    /\ trace' = Append(trace, ReflectSteps[3])
    /\ UNCHANGED <<heap, files, frame, result, exitAt, driver, others, hand, saved>>
\* self.store.recalculate_metrics(); return reflection
ReflectRecalc ==
    /\ pc = "reflect_recalc"
    /\ metricsFile' = RecalculateMetrics(reflectionsFile, cardsFile, goalsFile,
                                         patternsFile)
    /\ pc' = "done"
    /\ trace' = Append(trace, ReflectSteps[3])
    /\ UNCHANGED <<heap, goalsFile, cardsFile, reflectionsFile, patternsFile,
                   frame, result, exitAt, driver, others, hand, saved>>
\* the user dismisses a proposed card between two tasks
ReflectReview(id) ==
    /\ pc = "idle"
    /\ HasCard(cardsFile, id)
    /\ GetCard(cardsFile, id).status = "proposed"
    /\ cardsFile' = UpdateCardStatus(cardsFile, id, "dismissed", Now)
    /\ UNCHANGED <<heap, goalsFile, reflectionsFile, patternsFile, metricsFile,
                   pc, frame, result, exitAt, trace, driver, others, hand, saved>>

\* --------------------------------------------- direct reads of the store
\* what the loop and its callers hold
held == <<heap, frame, result, exitAt, trace, driver, hand, saved>>
\* a file is deleted, overwritten or restored by something other than the store
Scribble(name, content) ==
    /\ pc = "idle"
    /\ disk[name] # content
    /\ disk' = [disk EXCEPT ![name] = content]
    /\ UNCHANGED <<files, pc, held, answer, search, simple, beyond>>
\* the caller holds what the call handed back, or its exception
Answered(call, read) ==
    [call |-> call, exc |-> read.exc, list |-> read.list, metrics |-> read.metrics]
\* store.get_cards() / get_goals() / get_reflections() / get_patterns()
StoredList(name) ==
    IF name = "cards" THEN GetCards(cardsFile)
    ELSE IF name = "goals" THEN GetGoals(goalsFile)
    ELSE IF name = "reflections" THEN GetReflections(reflectionsFile, ReflectionCap)
    ELSE GetPatterns(patternsFile)
GetListCall(name) ==
    /\ pc = "idle"
    /\ answer' = Answered(name, ReadList(disk[name], StoredList(name)))
    /\ pc' = "done"
    /\ UNCHANGED <<files, held, disk, search, simple, beyond>>
\* store.get_metrics()
GetMetricsCall ==
    /\ pc = "idle"
    /\ answer' = Answered("metrics", ReadMetrics(disk["metrics"], metricsFile))
    /\ pc' = "done"
    /\ UNCHANGED <<files, held, disk, search, simple, beyond>>
\* a recalculation that adds the tasks it counts to the persisted count
RecalculateAdding(next) ==
    LET read == RecalculateFrom(disk, reflectionsFile, cardsFile, goalsFile,
                                patternsFile)
        sum == [read.metrics EXCEPT !.total_tasks = metricsFile.total_tasks + @]
    IN  /\ answer' = Answered("recalculate_metrics", [read EXCEPT !.metrics = sum])
        /\ metricsFile' = sum
        /\ disk' = [disk EXCEPT !["metrics"] = "sound"]
        /\ pc' = next
        /\ UNCHANGED <<goalsFile, cardsFile, reflectionsFile, patternsFile, held, search,
                       simple, beyond>>
\* store.recalculate_metrics(): save_metrics overwrites metrics.json; an
\* exception of one of its reads leaves the caller
Recalculate(next) ==
    LET read == RecalculateFrom(disk, reflectionsFile, cardsFile, goalsFile,
                                patternsFile)
    IN  /\ answer' = Answered("recalculate_metrics", read)
        /\ IF read.exc = None
           THEN /\ metricsFile' = read.metrics
                /\ disk' = [disk EXCEPT !["metrics"] = "sound"]
                /\ pc' = next
           ELSE /\ pc' = "done"
                /\ UNCHANGED <<metricsFile, disk>>
        /\ UNCHANGED <<goalsFile, cardsFile, reflectionsFile, patternsFile, held, search,
                       simple, beyond>>
\* a caller recalculates, and once more right away
RecalculateCall == pc = "idle" /\ Recalculate("recalculated")
RecalculateAgain == pc = "recalculated" /\ Recalculate("done")

\* ------------------------------------------- DiscoveryEngine.discover
\* all but the discovery engine
rest == <<files, held, disk, answer, simple, beyond>>
\* the seconds at which something happens
Times == {0, 1, CacheDuration - 1, CacheDuration, CacheDuration + 1, 2 * CacheDuration}
Tick(t) ==
    /\ pc = "idle"
    /\ t > search.now
    /\ search' = [search EXCEPT !.now = t]
    /\ UNCHANGED <<pc, rest>>
\* discover(limit=limit) up to "results = await asyncio.gather(...)": a
\* _search_source per source, the results in the order of the sources
DiscoverCall(limit, responses) ==
    /\ pc = "idle"
    /\ LET results == [src \in Sources |->
                          SearchSourceAt(search.cache[src], search.now, src,
                                         responses[src])]
       IN  search' =
               [search EXCEPT
                   !.cache = [src \in Sources |-> results[src].entry],
                   !.called = {src \in Sources : results[src].called},
                   !.searched =
                       [src \in Sources |->
                           IF results[src].called
                           THEN [done |-> TRUE, at |-> search.now,
                                 response |-> responses[src]]
                           ELSE search.searched[src]],
                   !.gathered = Extend(results, SourceOrder),
                   !.limit = limit,
                   !.returned = <<>>]
    /\ pc' = "discover_filter"
    /\ UNCHANGED rest
\* "discoveries = self._filter_and_deduplicate(discoveries)", the sort and
\* "return discoveries[:limit]"
DiscoverFilter ==
    /\ pc = "discover_filter"
    /\ search' = [search EXCEPT
                      !.returned = FilterSortTruncate(search.gathered, search.limit)]
    /\ pc' = "done"
    /\ UNCHANGED rest

\* ------------------------------------------------ run_simple_task_loop
\* What running the completion promise comes to: the command exits with a
\* code, subprocess.run raises TimeoutExpired, or it raises OSError (the
\* working directory is gone, the shell cannot be started).
OracleRuns == {"exit_0", "exit_1", "timeout", "os_error"}
\* an evaluation that lets the exception of subprocess.run through
EvaluatePromiseBare(run) ==
    IF run = "timeout" THEN [success |-> FALSE, exc |-> "TimeoutExpired"]
    ELSE IF run = "os_error" THEN [success |-> FALSE, exc |-> "FileNotFoundError"]
    ELSE [success |-> run = "exit_0", exc |-> None]
\* evaluate_promise: (returncode == 0, output); "except
\* subprocess.TimeoutExpired" and "except Exception" return (False, ...)
EvaluatePromise(run) ==
    IF run \in {"timeout", "os_error"} THEN [success |-> FALSE, exc |-> None]
    ELSE [success |-> run = "exit_0", exc |-> None]
\* all but the simple task loop
apart == <<files, held, disk, answer, search, beyond>>
\* run_simple_task_loop(project_dir, prompt, completion_promise, max_iterations)
SimpleCall(max_iterations) ==
    /\ pc = "idle"
    /\ simple' = [NoSimple EXCEPT !.entered = TRUE, !.max_iterations = max_iterations]
    /\ pc' = "simple_loop"
    /\ UNCHANGED apart
\* "while iteration < max_iterations: iteration += 1; client = create_client(...)";
\* after the loop "return False"
SimpleLoop ==
    /\ pc = "simple_loop"
    /\ IF simple.iteration < simple.max_iterations
       THEN /\ simple' = [simple EXCEPT !.iteration = @ + 1]
            /\ pc' = "simple_session"
       ELSE /\ simple' = [simple EXCEPT !.returned = "False"]
            /\ pc' = "done"
    /\ UNCHANGED apart
\* a session whose exception leaves the loop
SimpleSessionFatal(session) ==
    /\ pc = "simple_session"
    /\ simple' = [simple EXCEPT
                      !.sessions = @ + 1,
                      !.failed = IF session = "raise" THEN @ + 1 ELSE @,
                      !.raised = IF session = "raise" THEN "Exception" ELSE @]
    /\ pc' = IF session = "raise" THEN "done" ELSE "simple_check"
    /\ UNCHANGED apart
\* "try: async with client: status, response = await run_agent_session(...)
\*  except Exception: ... pass"
SimpleSession(session) ==
    /\ pc = "simple_session"
    /\ simple' = [simple EXCEPT
                      !.sessions = @ + 1,
                      !.failed = IF session = "raise" THEN @ + 1 ELSE @]
    /\ pc' = "simple_check"
    /\ UNCHANGED apart
\* "success, output = evaluate_promise(project_dir, completion_promise)";
\* "if success: ... return True", else on to the next iteration
SimpleCheck(run) ==
    /\ pc = "simple_check"
    /\ LET promise == EvaluatePromise(run)
           ran == [simple EXCEPT !.oracle = Append(@, run)]
       IN  IF promise.exc # None
           THEN /\ simple' = [ran EXCEPT !.raised = promise.exc]
                /\ pc' = "done"
           ELSE IF promise.success
           THEN /\ simple' = [ran EXCEPT !.returned = "True"]
                /\ pc' = "done"
           ELSE /\ simple' = ran
                /\ pc' = "simple_loop"
    /\ UNCHANGED apart

\* ------------------------------------- invocations sharing a directory
\* Each invocation has its own ImprovementStore on the same files and saves
\* new cards (uuid ids: no two alike). A save_card is three steps on the
\* file: _load_json reads it, open(filepath, "w") empties it, json.dump and
\* the close fill it.
WriterCardId(w, n) == 10 * (IF w = "a" THEN 1 ELSE 2) + n
InSave(w) == writers[w].at # "idle"
\* all but cards.json and the invocations
unshared ==
    <<goalsFile, reflectionsFile, patternsFile, metricsFile, pc, held, answer,
      search, simple, vercel, tool>>
\* "data = self._load_json("cards.json")": an empty or half-written file
\* reads as no cards
WriterLoads(w) ==
    /\ writers[w].at = "idle"
    /\ writers[w].saves < MaxRaceSaves
    /\ LET others_ == {o \in Writers \ {w} : InSave(o)}
       IN  writers' =
               [o \in Writers |->
                   IF o = w
                   THEN [writers[w] EXCEPT
                            !.at = "loaded",
                            !.card = NewCard(WriterCardId(w, writers[w].saves + 1),
                                             "reflection", ReduceQaTitle),
                            !.data = Readable(disk["cards"], cardsFile),
                            !.alone = others_ = {},
                            !.clobbered = FALSE]
                   ELSE IF InSave(o) THEN [writers[o] EXCEPT !.alone = FALSE]
                   ELSE writers[o]]
    /\ UNCHANGED <<cardsFile, disk, unshared>>
\* _save_json: "with open(filepath, "w", encoding="utf-8") as f"
WriterOpens(w) ==
    /\ writers[w].at = "loaded"
    /\ writers' = [writers EXCEPT ![w].at = "opened"]
    /\ disk' = [disk EXCEPT !["cards"] = "truncated"]
    /\ UNCHANGED <<cardsFile, unshared>>
\* a dump of the new card alone
WriterDumpsCard(w, garbled) ==
    /\ writers[w].at = "opened"
    /\ writers' = [writers EXCEPT ![w].at = "idle", ![w].saves = @ + 1]
    /\ cardsFile' = SaveCard(<<>>, writers[w].card)
    /\ disk' = [disk EXCEPT !["cards"] = "sound"]
    /\ UNCHANGED unshared
\* "json.dump({"cards": cards_data}, f)": the list loaded, with the card
\* appended or in the place of the entry with its id. Another invocation's
\* dump through its own handle in between may leave its longer text's tail
\* behind this one: no JSON.
WriterDumps(w, garbled) ==
    /\ writers[w].at = "opened"
    /\ writers' =
           [o \in Writers |->
               IF o = w THEN [writers[w] EXCEPT !.at = "idle", !.saves = @ + 1]
               ELSE IF writers[o].at = "opened" THEN [writers[o] EXCEPT !.clobbered = TRUE]
               ELSE writers[o]]
    /\ cardsFile' = SaveCard(writers[w].data, writers[w].card)
    /\ disk' = [disk EXCEPT !["cards"] =
                    IF writers[w].clobbered /\ garbled THEN "truncated" ELSE "sound"]
    /\ UNCHANGED unshared

\* ----------------------------------------------------- query_memory.py
\* A line of standard output is a JSON object with its success field, or
\* other text.
JsonLine(success) == [json |-> TRUE, success |-> success]
TextLine == [json |-> FALSE, success |-> FALSE]
Commands == {"get-status", "get-memories", "search", "semantic-search", "get-entities"}
\* all but the query tool
untold == <<files, held, disk, answer, search, simple, vercel, writers>>
\* the process ends with `code`
Exits(t, code) ==
    /\ tool' = [t EXCEPT !.exited = TRUE, !.code = code]
    /\ pc' = "done"
\* output_json: print(json.dumps(result)); sys.exit(0 if success else 1)
OutputJson(t, success) ==
    Exits([t EXCEPT !.stdout = Append(@, JsonLine(success))], IF success THEN 0 ELSE 1)
\* get_db_connection: (conn, None) or (None, error)
Connects(env) == env.path = "dir" /\ env.database /\ env.opens
\* main: argparse, then the handler of the command. No command: the help
\* is printed, then output_error. A command line argparse rejects: usage on
\* standard error and exit code 2. "-h": the help and exit code 0.
ToolMain(argv, env) ==
    /\ pc = "idle"
    /\ LET t == [NoTool EXCEPT !.command = argv, !.env = env]
       IN  IF argv = "none"
           THEN OutputJson([t EXCEPT !.stdout = Append(@, TextLine)], FALSE)
           ELSE IF argv = "rejected"
           THEN Exits(t, 2)
           ELSE IF argv = "--help"
           THEN Exits([t EXCEPT !.stdout = Append(@, TextLine)], 0)
           ELSE tool' = t /\ pc' = argv
    /\ UNCHANGED untold
\* cmd_get_status: without a backend success with available false; else
\* db_path.iterdir() (NotADirectoryError when db_path is a file, outside any
\* try), the connection test, and success
ToolGetStatus ==
    /\ pc = "get-status"
    /\ IF ~tool.env.backend THEN OutputJson(tool, TRUE)
       ELSE IF tool.env.path = "file" THEN Exits(tool, 1)
       ELSE OutputJson(tool, TRUE)
    /\ UNCHANGED untold
\* cmd_get_memories, cmd_get_entities and cmd_search: no backend or no
\* connection is an error; the rows, or none when the table does not exist
\* yet, are a success; any other exception is an error
ToolQuery ==
    /\ pc \in {"get-memories", "get-entities", "search"}
    /\ IF ~tool.env.backend \/ ~Connects(tool.env) THEN OutputJson(tool, FALSE)
       ELSE OutputJson(tool, tool.env.query \in {"rows", "no_table"})
    /\ UNCHANGED untold
\* cmd_semantic_search: without an embedder, or when _async_semantic_search
\* reports a failure or raises, "return cmd_search(args)"; else its data
ToolSemanticSearch ==
    /\ pc = "semantic-search"
    /\ IF tool.env.embedder /\ tool.env.backend /\ tool.env.semantic = "found"
       THEN OutputJson(tool, TRUE)
       ELSE tool' = tool /\ pc' = "search"
    /\ UNCHANGED untold

\* ------------------------------------------- Vercel monitor and fix loop
\* Times are seconds on the event loop's clock, counted from the start of
\* the wait in progress. What is kept of a call is what it saved and wrote.
Statuses == {"QUEUED", "BUILDING", "READY", "ERROR", "CANCELED"}
TimeoutSeconds == DefaultPollTimeoutMinutes * 60
\* a request is answered at once or when the client's timeout is near
RequestSeconds == {0, HttpTimeoutSeconds}
\* all but the Vercel monitor and fix loop
outside == <<files, held, disk, answer, search, simple, tool, writers>>

\* "state = await client.wait_for_deployment(...)" returns to its caller
WaitReturns(v, timed_out) ==
    /\ vercel' = [v EXCEPT !.state = v.fresh, !.timed_out = timed_out]
    /\ pc' = IF v.waiting = "monitor" THEN "monitor_check" ELSE "fix_after_wait"
\* an exception leaves the monitor or the fix loop
VercelRaises(v, exc) ==
    /\ vercel' = [v EXCEPT !.raised = exc]
    /\ pc' = "done"
VercelReturns(v, value) ==
    /\ vercel' = [v EXCEPT !.returned = value]
    /\ pc' = "done"
\* wait_for_deployment is entered by `caller`
Waiting(v, caller) ==
    [v EXCEPT !.waiting = caller, !.elapsed = 0, !.timed_out = FALSE,
              !.fresh = DefaultState]

\* wait_for_deployment up to its polling loop: find_deployment_by_commit
\* lists the deployments (a non-200 answer raises VercelAPIError, which
\* nothing catches), finds the commit's deployment in the state `listing`
\* after `took` seconds, or gives up after FindWaitSeconds
WaitFind(listing, took) ==
    /\ pc = "wait_find"
    /\ IF listing = "api_error"
       THEN VercelRaises(vercel, "VercelAPIError")
       ELSE IF listing = "none"
       THEN WaitReturns([vercel EXCEPT
                            !.elapsed = FindWaitSeconds,
                            !.fresh = DeploymentState(None, "ERROR", "not_found",
                                                      <<>>, 0, <<>>)], FALSE)
       ELSE /\ vercel' = [vercel EXCEPT
                             !.elapsed = took,
                             !.fresh = DeploymentState("d", listing, None, <<>>, 0, <<>>)]
            /\ pc' = "wait_poll"
    /\ UNCHANGED outside
\* one test of "while (time() - start_time) < timeout_seconds" and the pass
\* that follows: get_deployment answers `reply` after `took` seconds, a
\* failed build comes with the errors `errors` of its events
WaitPoll(reply, took, errors) ==
    /\ pc = "wait_poll"
    /\ LET sleeps == [vercel EXCEPT !.elapsed = @ + took + DefaultPollIntervalSeconds]
           polled == [vercel EXCEPT !.elapsed = @ + took, !.fresh.status = reply]
       IN  IF vercel.elapsed >= TimeoutSeconds
           THEN WaitReturns([vercel EXCEPT !.fresh.error_message = "timed_out"], TRUE)
           ELSE IF reply = "api_error"
           THEN vercel' = sleeps /\ pc' = "wait_poll"
           ELSE IF reply = "READY"
           THEN WaitReturns(polled, FALSE)
           ELSE IF reply = "ERROR"
           THEN WaitReturns([polled EXCEPT !.fresh.error_message = "build_failed",
                                           !.fresh.errors = errors], FALSE)
           ELSE IF reply = "CANCELED"
           THEN WaitReturns([polled EXCEPT !.fresh.error_message = "canceled"], FALSE)
           ELSE /\ vercel' = [sleeps EXCEPT !.fresh.status = reply]
                /\ pc' = "wait_poll"
    /\ UNCHANGED outside

\* run_vercel_fix_loop is entered: "state = initial_state;
\* fix_attempt = state.fix_attempts"
FixEnters(v, initial_state) ==
    /\ vercel' = [v EXCEPT !.state = initial_state,
                           !.initial = initial_state.fix_attempts,
                           !.fix_attempt = initial_state.fix_attempts,
                           !.errors = "unbound"]
    /\ pc' = "fix_loop"
\* run_vercel_monitor(project_dir, spec_dir, commit_sha, model)
MonitorCall(enabled, auto_fix) ==
    /\ pc = "idle"
    /\ LET called == [NoVercel EXCEPT !.entry = "monitor", !.auto_fix = auto_fix]
       IN  IF ~enabled
           THEN VercelReturns(called, "True")
           ELSE vercel' = Waiting(called, "monitor") /\ pc' = "wait_find"
    /\ UNCHANGED outside
\* "state.save(spec_dir)", then is_ready / is_failed / neither
MonitorCheck ==
    /\ pc = "monitor_check"
    /\ LET saved_ == [vercel EXCEPT !.file = [written |-> TRUE, state |-> vercel.state]]
       IN  IF IsReady(vercel.state) THEN VercelReturns(saved_, "True")
           ELSE IF IsFailed(vercel.state) THEN FixEnters(saved_, vercel.state)
           ELSE VercelReturns(saved_, "False")
    /\ UNCHANGED outside
\* run_vercel_fix_loop(project_dir, spec_dir, model, initial_state, config)
FixCall(initial_state, auto_fix) ==
    /\ pc = "idle"
    /\ FixEnters([NoVercel EXCEPT !.entry = "fix", !.auto_fix = auto_fix], initial_state)
    /\ UNCHANGED outside
\* a while test whose pass is not counted
FixLoopUncounted ==
    /\ pc = "fix_loop"
    /\ IF vercel.fix_attempt < MaxVercelFixAttempts
       THEN vercel' = [vercel EXCEPT !.errors = "some"] /\ pc' = "fix_session"
       ELSE vercel' = vercel /\ pc' = "fix_escalate"
    /\ UNCHANGED outside
\* "while fix_attempt < MAX_VERCEL_FIX_ATTEMPTS: fix_attempt += 1", the
\* errors of the pass (state.errors, else one made of state.error_message),
\* "if not errors: break"
FixLoop ==
    /\ pc = "fix_loop"
    /\ IF vercel.fix_attempt < MaxVercelFixAttempts
       THEN LET errors == IF vercel.state.errors # <<>> \/ vercel.state.error_message # None
                          THEN "some" ELSE "none"
            IN  /\ vercel' = [vercel EXCEPT !.fix_attempt = @ + 1, !.errors = errors]
                /\ pc' = IF errors = "none" THEN "fix_escalate" ELSE "fix_session"
       ELSE vercel' = vercel /\ pc' = "fix_escalate"
    /\ UNCHANGED outside
\* the fix request is written and the fixer session runs (it returns
\* "fixed" or "error"); then record and continue, commit and push, or in
\* manual mode record and return
FixSession(fix_status, pushed) ==
    /\ pc = "fix_session"
    /\ LET ran == [vercel EXCEPT !.sessions = @ + 1]
           Saves(v, success) ==
               LET state == RecordFixAttempt(v.state, success)
               IN  [v EXCEPT !.state = state, !.file = [written |-> TRUE, state |-> state]]
       IN  IF fix_status = "error"
           THEN vercel' = Saves(ran, FALSE) /\ pc' = "fix_loop"
           ELSE IF ~vercel.auto_fix
           THEN VercelReturns(Saves(ran, TRUE), "False")
           ELSE IF ~pushed
           THEN vercel' = Saves(ran, FALSE) /\ pc' = "fix_loop"
           ELSE vercel' = Waiting(ran, "fix") /\ pc' = "wait_find"
    /\ UNCHANGED outside
\* "state.fix_attempts = fix_attempt; state.save(spec_dir)", then
\* "if state.is_ready(): return True", "if state.is_failed(): continue",
\* and the end of the loop body
FixAfterWait ==
    /\ pc = "fix_after_wait"
    /\ LET state == [vercel.state EXCEPT !.fix_attempts = vercel.fix_attempt]
           saved_ == [vercel EXCEPT !.state = state,
                                    !.file = [written |-> TRUE, state |-> state]]
       IN  IF IsReady(state) THEN VercelReturns(saved_, "True")
           ELSE vercel' = saved_ /\ pc' = "fix_loop"
    /\ UNCHANGED outside
\* after the loop: VERCEL_ESCALATION.md from `errors` and state.fix_history,
\* "return False"
FixEscalate ==
    /\ pc = "fix_escalate"
    /\ IF vercel.errors = "unbound"
       THEN VercelRaises(vercel, "UnboundLocalError")
       ELSE VercelReturns([vercel EXCEPT
                              !.report = [written |-> TRUE,
                                          attempts |-> [i \in 1..Len(vercel.state.fix_history) |->
                                                          vercel.state.fix_history[i].attempt]]],
                          "False")
    /\ UNCHANGED outside

\* ------------------------------------------------------ specification
CardIds == 1..(StallThreshold + 1 + MaxCards)
Next ==
    \/ \E r \in ReflectionKinds : SaveReflectionCall(r)
    \/ \E it \in IssueTypes, sev \in Severities : SavePatternCall(it, sev)
    \/ \E g \in {G1, G2} : SaveCardCall(g)
    \/ \E id \in CardIds, st \in CardStatuses : UpdateCardStatusCall(id, st)
    \/ \E h \in Handles : GetGoalCall(h)
    \/ \E h \in Handles : SaveGoalCall(h)
    \/ \E h \in Handles : AbandonGoalCall(h)
    \/ \E h \in Handles, m \in 0..MaxIter : RunCall(h, m)
    \/ RunSaveGoal
    \/ RunLoop
    \/ RunGather
    \/ RunCheck
    \/ RunAchieved
    \/ RunPropose
    \/ RunDecide
    \/ RunExhausted
    \/ \E h \in Handles, i \in 0..(MaxIter + 1) : ResumeCall(h, i, MaxIter)
    \/ ResumeGather
    \/ ResumeCheck
    \/ ResumeAchieved
    \/ ResumeStalled
    \/ Return

Spec == Init /\ [][Next]_vars

\* The store already holds old dismissed cards of the goal, five or six.
StallInit == \E k \in {StallThreshold, StallThreshold + 1} : Start(k, NoDriver)
SpecStall == StallInit /\ [][Next]_vars

\* The driver and the user: one run, then a resume after each awaiting_user.
DriverInit == Start(0, [NoDriver EXCEPT !.on = TRUE])
DriverNext ==
    \/ \E r \in ReflectionKinds : SaveReflectionCall(r)
    \/ \E it \in IssueTypes, sev \in Severities : SavePatternCall(it, sev)
    \/ \E id \in CardIds, st \in CardStatuses : UpdateCardStatusCall(id, st)
    \/ \E m \in 1..MaxIter : DriverRun(m)
    \/ DriverResume
    \/ RunSaveGoal
    \/ RunLoop
    \/ RunGather
    \/ RunCheck
    \/ RunAchieved
    \/ RunPropose
    \/ RunDecide
    \/ RunExhausted
    \/ ResumeGather
    \/ ResumeCheck
    \/ ResumeAchieved
    \/ ResumeStalled
    \/ Return
SpecDriver == DriverInit /\ [][DriverNext]_vars

\* A program that creates, reviews, saves and loads cards through the store.
StoreCardIds == 1..MaxCards
CardsNext ==
    \/ \E title \in CardTitles : CardCreate(title)
    \/ CardApprove
    \/ CardDismiss
    \/ \E now \in CardTimes : CardApply(now)
    \/ StoreSaveCard
    \/ \E id \in StoreCardIds : StoreGetCard(id)
    \/ \E id \in StoreCardIds, st \in CardStatuses \ {"applied"} :
           StoreUpdateCardStatus(id, st, Now)
    \/ \E id \in StoreCardIds, now \in CardTimes :
           StoreUpdateCardStatus(id, "applied", now)
CardsInit == Init /\ heap["h1"].type = "pattern_fix"
SpecCards == CardsInit /\ [][CardsNext]_vars

\* reflections.json is one entry short of the cap, saved at the seconds
\* 1, 2, ...; the next reflections carry timestamps older than all of them,
\* between them, equal to one of them, and newer, in any order.
Earlier == [i \in 1..(ReflectionCap - 1) |-> TaskReflection(TRUE, 1, 2, <<>>, Time(i, 0))]
CapTimes == {Time(0, 0), Time(1, 0), Time(50, 1), Time(ReflectionCap, 0),
             Time(ReflectionCap, 1)}
CapInit == StartWith(0, NoDriver, Earlier) /\ heap["h1"].type = "pattern_fix"
CapNext == \E t \in CapTimes : StoreSaveReflection(TaskReflection(FALSE, 3, 0, <<>>, t))
SpecCap == CapInit /\ [][CapNext]_vars

\* Tasks complete one after the other; the user dismisses cards in between.
ReflectCardIds == 1..(2 * MaxTasks)
ReflectInit == Init /\ heap["h1"].type = "pattern_fix"
ReflectNext ==
    \/ \E r \in TaskKinds : ReflectCall(r)
    \/ ReflectAnalyze
    \/ ReflectRecalc
    \/ \E id \in ReflectCardIds : ReflectReview(id)
    \/ Return
SpecReflect == ReflectInit /\ [][ReflectNext]_vars

\* patterns.json also receives patterns whose issue_type is null (a pattern
\* saved without an issue type: save_pattern and get_patterns accept it).
FaultNext ==
    \/ \E r \in ReflectionKinds : SaveReflectionCall(r)
    \/ \E it \in IssueTypes \cup {Null}, sev \in Severities : SavePatternCall(it, sev)
    \/ \E id \in CardIds, st \in CardStatuses : UpdateCardStatusCall(id, st)
    \/ \E m \in 0..MaxIter : RunCall("h1", m)
    \/ RunSaveGoal
    \/ RunLoop
    \/ RunGather
    \/ RunCheck
    \/ RunAchieved
    \/ RunPropose
    \/ RunDecide
    \/ RunExhausted
    \/ Return
SpecFault == Init /\ [][FaultNext]_vars

\* A program reads the store directly while its files are deleted, damaged
\* and restored from outside; cards.json and reflections.json hold entries.
ReadInit ==
    /\ StartWith(1, NoDriver, <<Reflection(FALSE, 3, 0)>>)
    /\ heap["h1"].type = "pattern_fix"
ReadNext ==
    \/ \E name \in FileNames, content \in Contents : Scribble(name, content)
    \/ \E name \in ListNames : GetListCall(name)
    \/ GetMetricsCall
    \/ RecalculateCall
    \/ RecalculateAgain
    \/ Return
SpecRead == ReadInit /\ [][ReadNext]_vars

\* The end of discover for every short list of gathered discoveries: two
\* urls, names that differ in case only or altogether, scores below, at and
\* above the threshold.
Discoveries ==
    {Discovery(url, name, score) :
        url \in {"u1", "u2"}, name \in {"Tool", "tool", "kit"},
        score \in {RelevanceThreshold - 1, RelevanceThreshold, 50}}
GatheredLists == UNION {[1..n -> Discoveries] : n \in 0..MaxGathered}
FilterInit ==
    /\ \E gathered \in GatheredLists, limit \in 0..MaxLimit :
           StartFrom(0, NoDriver, <<>>, "discover_filter",
                     [NoSearch EXCEPT !.gathered = gathered, !.limit = limit])
    /\ heap["h1"].type = "discovery"
    /\ heap["h1"].discovery_count = 1
FilterNext ==
    \/ DiscoverFilter
    \/ Return
SpecFilter == FilterInit /\ [][FilterNext]_vars

\* The engine searches its sources again and again while time passes.
SearchInit == Init /\ heap["h1"].type = "discovery" /\ heap["h1"].discovery_count = 1
SearchNext ==
    \/ \E t \in Times : Tick(t)
    \/ \E limit \in 1..MaxLimit, responses \in [Sources -> Responses] :
           DiscoverCall(limit, responses)
    \/ DiscoverFilter
    \/ Return
SpecSearch == SearchInit /\ [][SearchNext]_vars

\* Simple tasks are run with budgets of 0 to MaxSimpleIter iterations.
SimpleInit == Init /\ heap["h1"].type = "pattern_fix"
SimpleNext ==
    \/ \E m \in 0..MaxSimpleIter : SimpleCall(m)
    \/ SimpleLoop
    \/ \E session \in {"ok", "raise"} : SimpleSession(session)
    \/ \E run \in OracleRuns : SimpleCheck(run)
    \/ Return
SpecSimple == SimpleInit /\ [][SimpleNext]_vars

\* The monitor is called after a merge; the fix loop is also called with a
\* deployment state from an earlier invocation, 0 to MaxInitialAttempts fix
\* attempts made.
History(k) == [i \in 1..k |-> [attempt |-> i, success |-> FALSE]]
InitialStates ==
    { DeploymentState("d", "ERROR", message, <<>>, k, History(k)) :
        message \in {"build_failed", None}, k \in 0..MaxInitialAttempts }
VercelInit == Init /\ heap["h1"].type = "pattern_fix"
VercelNext ==
    \/ \E enabled, auto_fix \in BOOLEAN : MonitorCall(enabled, auto_fix)
    \/ \E initial_state \in InitialStates, auto_fix \in BOOLEAN : FixCall(initial_state, auto_fix)
    \/ \E listing \in Statuses \cup {"api_error", "none"}, took \in {0, FindWaitSeconds - 5} :
           WaitFind(listing, took)
    \/ \E reply \in Statuses \cup {"api_error"}, took \in RequestSeconds,
          errors \in {<<>>, <<"e">>} : WaitPoll(reply, took, errors)
    \/ MonitorCheck
    \/ FixLoop
    \/ \E fix_status \in {"fixed", "error"}, pushed \in BOOLEAN : FixSession(fix_status, pushed)
    \/ FixAfterWait
    \/ FixEscalate
    \/ Return
SpecVercel == VercelInit /\ [][VercelNext]_vars

\* Two invocations save cards into a directory that holds one card.
RaceInit == Start(1, NoDriver) /\ heap["h1"].type = "pattern_fix"
RaceNext ==
    \/ \E w \in Writers : WriterLoads(w)
    \/ \E w \in Writers : WriterOpens(w)
    \/ \E w \in Writers, garbled \in BOOLEAN : WriterDumps(w, garbled)
SpecRace == RaceInit /\ [][RaceNext]_vars

\* The tool is invoked with any command line in any environment.
Places ==
    { <<"missing", FALSE, FALSE>>, <<"file", FALSE, FALSE>>, <<"dir", FALSE, FALSE>>,
      <<"dir", TRUE, FALSE>>, <<"dir", TRUE, TRUE>> }
Embedders == { <<FALSE, "found">>, <<TRUE, "found">>, <<TRUE, "invalid">>, <<TRUE, "raises">> }
ToolEnvs ==
    { ToolEnv(backend, place[1], place[2], place[3], query, embedder[1], embedder[2]) :
        backend \in BOOLEAN, place \in Places,
        query \in {"rows", "no_table", "fails"}, embedder \in Embedders }
ToolInit == Init /\ heap["h1"].type = "pattern_fix"
ToolNext ==
    \/ \E argv \in Commands \cup {"none", "rejected", "--help"}, env \in ToolEnvs :
           ToolMain(argv, env)
    \/ ToolGetStatus
    \/ ToolQuery
    \/ ToolSemanticSearch
    \/ Return
SpecTool == ToolInit /\ [][ToolNext]_vars

\* ---------------------------------------------------------- properties
IsPrefix(a, b) == Len(a) <= Len(b) /\ \A i \in 1..Len(a) : a[i] = b[i]
Done == pc = "done"
Returned(status) == result.kind = "returned" /\ result.status = status
\* the cards the call in progress has added to cards.json
NewCards == SubSeq(cardsFile, frame.cards0 + 1, Len(cardsFile))
CardsOfGoal(status) ==
    SelectSeq(GetCardsForGoal(cardsFile, Goal.id), LAMBDA c : c.status = status)
\* the steps of the run part of the call: all of them in run, those after the
\* delegation in resume_after_user_action
RunSteps ==
    IF frame.entry = "resume"
    THEN IF Count(trace, "run") = 0 THEN <<>>
         ELSE LET k == CHOOSE i \in 1..Len(trace) : trace[i] = "run"
              IN  SubSeq(trace, k + 1, Len(trace))
    ELSE trace

\* C1: for max_iterations >= 1, a run whose first achievement check fails
\* returns awaiting_user or no_proposals with iterations = 1, after exactly one
\* metric gathering and one proposal round.
C1_RunReturnsAfterOnePass ==
    (Done /\ frame.entry = "run" /\ frame.max_iterations >= 1
          /\ Count(trace, "check_false") >= 1)
        => /\ Returned("awaiting_user") \/ Returned("no_proposals")
           /\ result.iterations = 1
           /\ Count(trace, "gather") = 1
           /\ Count(trace, "propose") = 1

\* C2: for a goal that is not achieved, run returns no_proposals iff the
\* proposal step created no card and the store holds no Proposed card of the
\* goal; otherwise it returns awaiting_user.
C2_NoProposalsIff ==
    (Done /\ frame.entry = "run" /\ Count(trace, "propose") >= 1)
        => IF frame.cards = <<>> /\ CardsOfGoal("proposed") = <<>>
           THEN Returned("no_proposals")
           ELSE Returned("awaiting_user")

\* C3: when the achievement check succeeds in run or in
\* resume_after_user_action, the call returns status achieved, the store holds
\* the goal as Achieved with achieved_at set, the call created no card, and in
\* run the result says iteration 1.
C3_AchievedResult ==
    (Done /\ Count(trace, "check_true") >= 1)
        => /\ Returned("achieved")
           /\ HasGoal(goalsFile, Goal.id)
           /\ GetGoal(goalsFile, Goal.id).status = "achieved"
           /\ GetGoal(goalsFile, Goal.id).achieved_at # None
           /\ NewCards = <<>>
           /\ frame.entry = "run" => result.iterations = 1

\* the value of a named metric, from what the store holds now
StoreValue(name) ==
    LET m == RecalculateMetrics(reflectionsFile, cardsFile, goalsFile, patternsFile)
    IN  IF name = "avg_qa_iterations"
        THEN IF Len(reflectionsFile) = 0 THEN Zero
             ELSE Rat(SumSeq([i \in 1..Len(reflectionsFile) |->
                                 reflectionsFile[i].qa_iterations]),
                      Len(reflectionsFile))
        ELSE IF name = "success_rate"
        THEN IF m.total_tasks = 0 THEN Zero
             ELSE Rat(m.successful_tasks, m.total_tasks)
        ELSE IF name = "avg_task_duration" THEN m.avg_task_duration_seconds
        ELSE Zero
CheckedTrue == pc \in {"run_achieved", "resume_achieved"}
CheckedFalse == pc \in {"run_propose", "resume_stalled"}
\* C4: for a Metric goal the achievement check answers true iff
\* current <= target for avg_qa_iterations and avg_task_duration, and iff
\* current >= target for every other metric name, current being the value
\* read off the recalculated store metrics (0 when the name has no reading).
C4_MetricAchievement ==
    ((CheckedTrue \/ CheckedFalse) /\ Goal.type = "metric" /\ HasMetric(Goal))
        => LET current == StoreValue(Goal.metric.name)
               target == Goal.metric.target
           IN  /\ metricsFile = RecalculateMetrics(reflectionsFile, cardsFile,
                                                   goalsFile, patternsFile)
               /\ CheckedTrue <=>
                      IF Goal.metric.name \in {"avg_qa_iterations", "avg_task_duration"}
                      THEN current.n * target.d <= target.n * current.d
                      ELSE current.n * target.d >= target.n * current.d
\* a lower-is-better goal found achieved with current = target, tasks recorded
C4_Witness ==
    /\ CheckedTrue
    /\ Goal.type = "metric"
    /\ Goal.metric.name = "avg_qa_iterations"
    /\ reflectionsFile # <<>>
    /\ StoreValue("avg_qa_iterations").n * Goal.metric.target.d
           = Goal.metric.target.n * StoreValue("avg_qa_iterations").d

\* C5: resume_after_user_action returns stalled iff the goal is not achieved,
\* the store holds no Approved card of the goal and more than 5 Dismissed
\* ones; a stalled call creates no card and leaves the goal's status alone.
C5_StalledIff ==
    (Done /\ frame.entry = "resume")
        => LET stalls ==
                   /\ Count(trace, "check_false") >= 1
                   /\ Count(trace, "run") = 0
                   /\ CardsOfGoal("approved") = <<>>
                   /\ Len(CardsOfGoal("dismissed")) > 5
           IN  /\ Returned("stalled") <=> stalls
               /\ stalls =>
                      /\ NewCards = <<>>
                      /\ HasGoal(frame.goals0, Goal.id) =>
                             GetGoal(goalsFile, Goal.id).status
                                 = GetGoal(frame.goals0, Goal.id).status

\* C6: for the driver that calls run once and then resume_after_user_action
\* with the iterations of the previous result and the same max_iterations, the
\* passes made for the goal never exceed max_iterations.
C6_SharedBudget == driver.on => driver.passes <= driver.max_iterations

\* C7: when run's loop ends on an exhausted budget (also a budget of 0 or less
\* handed over by resume_after_user_action), run returns a result with status
\* max_iterations and does not raise.
C7_ExhaustionReturns == (Done /\ exitAt = "max_iterations") => Returned("max_iterations")

\* C8: within a pass of run the goal is persisted, then the metrics are
\* gathered, then achievement is checked, then cards are proposed, in this
\* order and no other; no card is created before the check has answered false.
C8_PassOrder ==
    (pc # "idle")
        => /\ \/ IsPrefix(RunSteps, <<"save_goal", "gather", "check_false", "propose">>)
              \/ RunSteps = <<"save_goal", "gather", "check_true">>
           /\ NewCards # <<>> =>
                  /\ Count(RunSteps, "check_false") = 1
                  /\ RunSteps[Len(RunSteps)] = "propose"
\* a run that went through the four steps and created a card
C8_Witness ==
    /\ Done
    /\ frame.entry = "run"
    /\ trace = <<"save_goal", "gather", "check_false", "propose">>
    /\ Len(NewCards) = 1

\* C9: when run returns awaiting_user with cards_proposed = n, the store holds
\* n cards created in that call, each Proposed and carrying the goal's id.
C9_ProposedCardsPersisted ==
    (Done /\ frame.entry = "run" /\ exitAt = "awaiting_user")
        => /\ Returned("awaiting_user")
           /\ result.cards_proposed = Len(NewCards)
           /\ \A i \in 1..Len(NewCards) :
                  /\ NewCards[i].status = "proposed"
                  /\ NewCards[i].goal_id = Goal.id

\* C10: the persisted status of a goal only ever changes Active -> Achieved or
\* Active -> Abandoned, and a persisted achieved_at, once set, is never cleared.
C10_GoalStatusMonotone ==
    [][ \A id \in {G1} :
          (HasGoal(goalsFile, id) /\ HasGoal(goalsFile', id))
              => LET old == GetGoal(goalsFile, id)
                     new == GetGoal(goalsFile', id)
                 IN  /\ old.status # new.status =>
                            /\ old.status = "active"
                            /\ new.status \in {"achieved", "abandoned"}
                     /\ old.achieved_at # None => new.achieved_at # None ]_vars
\* C11: whatever sequence of approve, dismiss, apply and update_card_status
\* calls a card went through, in cards.json and in the caller's hand its
\* applied_at is set exactly when its status is applied.
C11_AppliedAtIffApplied ==
    /\ \A i \in 1..Len(cardsFile) :
           (cardsFile[i].applied_at # Null) <=> (cardsFile[i].status = "applied")
    /\ hand # NoCard => ((hand.applied_at # Never) <=> (hand.status = "applied"))

UniqueCardIds ==
    \A i, j \in 1..Len(cardsFile) : cardsFile[i].id = cardsFile[j].id => i = j
C13_SaveCardUpserts ==
    /\ []UniqueCardIds
    /\ [][ StoreSaveCard =>
             /\ GetCard(cardsFile', hand.id) = hand
             /\ IF HasCard(cardsFile, hand.id)
                THEN /\ Len(cardsFile') = Len(cardsFile)
                     /\ \A i \in 1..Len(cardsFile) :
                            IF cardsFile[i].id = hand.id
                            THEN cardsFile'[i] = CardToDict(hand)
                            ELSE cardsFile'[i] = cardsFile[i]
                ELSE cardsFile' = Append(cardsFile, CardToDict(hand)) ]_vars
\* the card in hand is stored under its id, first of two, applied at a time
\* with a fraction of a second, and the stored entry is the one in hand
C13_Witness ==
    /\ Len(cardsFile) = MaxCards
    /\ hand.id = 1
    /\ hand.status = "applied"
    /\ hand.applied_at = Time(1, 1)
    /\ GetCard(cardsFile, 1) = hand

\* C14: reflections.json never holds more than 100 entries; up to 100 saves
\* it holds every reflection saved, and after more than 100 saves, in any
\* order of timestamps, it holds exactly 100 of the saved reflections and no
\* dropped reflection has a later created_at than a retained one.
SavedDicts == [i \in 1..Len(saved) |-> ReflectionToDict(saved[i])]
C14_ReflectionCap ==
    /\ Len(reflectionsFile) <= ReflectionCap
    /\ Len(saved) <= ReflectionCap => reflectionsFile = SavedDicts
    /\ Len(saved) > ReflectionCap =>
           /\ Len(reflectionsFile) = ReflectionCap
           /\ \A j \in 1..Len(reflectionsFile) :
                  Count(reflectionsFile, reflectionsFile[j])
                      <= Count(SavedDicts, reflectionsFile[j])
           /\ \A i \in 1..Len(saved) :
                  Count(reflectionsFile, SavedDicts[i]) < Count(SavedDicts, SavedDicts[i])
                      => \A j \in 1..Len(reflectionsFile) :
                             ~TimeLess(FromIsoFormat(reflectionsFile[j].created_at),
                                       saved[i].created_at)
\* more than 100 reflections were saved, the last one older than all others,
\* and one with a fraction of a second is retained
C14_Witness ==
    /\ Len(saved) = ReflectionCap + 2
    /\ saved[Len(saved)].created_at = Time(0, 0)
    /\ \E j \in 1..Len(reflectionsFile) :
           reflectionsFile[j].created_at = IsoFormat(Time(50, 1))

\* C15: for a PatternFix goal and a stored high-severity pattern of any issue
\* type, a run proposes exactly one card for the pattern when no Proposed or
\* Approved card for it is stored and none when one is, so the store never
\* holds two Proposed or Approved cards for one pattern.
ActiveFor(cards, issue_type) ==
    SelectSeq(cards, LAMBDA c : /\ c.title = PatternTitle(issue_type)
                                /\ c.status \in {"proposed", "approved"})
HighPatterns == SelectSeq(patternsFile, LAMBDA p : p.severity = "high")
C15_PatternCardOnce ==
    \A k \in 1..Len(HighPatterns) :
        LET issue_type == HighPatterns[k].issue_type
        IN  /\ Len(ActiveFor(cardsFile, issue_type)) <= 1
            /\ (pc = "run_decide" /\ Goal.type = "pattern_fix")
                   => Len(ActiveFor(NewCards, issue_type)) =
                          IF ActiveFor(SubSeq(cardsFile, 1, frame.cards0), issue_type) = <<>>
                          THEN 1 ELSE 0

\* C16: across run_post_task_reflection calls a pattern card for an issue
\* type is created only when no Proposed or Approved card for that type is
\* stored, so cards.json never holds two such cards for one issue type.
C16_NoSecondPatternCard ==
    \A t \in IssueTypes : Len(ActiveFor(GetCards(cardsFile), t)) <= 1

\* C17: every pattern that detection creates, of whatever issue type, has
\* severity high exactly when it has 5 or more occurrences and medium exactly
\* when it has 3 or 4, and no pattern in patterns.json has severity low.
SeverityByCount(pattern) ==
    /\ pattern.severity = "high" <=> pattern.occurrences >= 5
    /\ pattern.severity = "medium" <=> (3 <= pattern.occurrences /\ pattern.occurrences < 5)
C17_SeverityByOccurrences ==
    LET detected == DetectPatterns(GetReflections(reflectionsFile, AnalysisWindow))
    IN  /\ \A k \in 1..Len(detected) : SeverityByCount(detected[k])
        /\ \A i \in 1..Len(patternsFile) :
               /\ patternsFile[i].severity # "low"
               /\ SeverityByCount(patternsFile[i])

\* C18: run_post_task_reflection saves the reflection, then analyses the
\* patterns, then recalculates the metrics, and does nothing else; the
\* analysis reads the reflection just saved; and when the call returns,
\* metrics.json counts that reflection and every card in cards.json.
CardsWith(status) == SelectSeq(cardsFile, LAMBDA c : c.status = status)
C18_ReflectionSteps ==
    /\ pc # "idle" => IsPrefix(trace, ReflectSteps)
    /\ pc = "reflect_analyze" =>
           Head(GetReflections(reflectionsFile, AnalysisWindow)) = saved[Len(saved)]
    /\ pc = "done" =>
           /\ trace = ReflectSteps
           /\ metricsFile.total_tasks = Len(saved)
           /\ metricsFile.successful_tasks = Len(SelectSeq(saved, LAMBDA r : r.success))
           /\ metricsFile.total_qa_iterations =
                  SumSeq([i \in 1..Len(saved) |-> saved[i].qa_iterations])
           /\ metricsFile.recurring_patterns_count = Len(patternsFile)
           /\ metricsFile.cards_proposed = Len(CardsWith("proposed"))
           /\ metricsFile.cards_dismissed = Len(CardsWith("dismissed"))
           /\ metricsFile.cards_proposed + metricsFile.cards_approved
                  + metricsFile.cards_applied + metricsFile.cards_dismissed
                  = Len(cardsFile)
\* the call after the fourth task has returned: a first card was dismissed,
\* and the metrics count the four reflections and the cards created since
C18_Witness ==
    /\ pc = "done"
    /\ Len(saved) = 4
    /\ metricsFile.total_tasks = 4
    /\ metricsFile.cards_dismissed = 1
    /\ metricsFile.cards_proposed >= 1

MetricGuard ==
    LET current == GetValue(frame.current_metrics)
        target == Goal.metric.target
        reflections == GetReflections(reflectionsFile, ProposeWindow)
    IN  IF Goal.metric.name = "avg_qa_iterations"
        THEN /\ Gt(current, target)
             /\ \E i \in 1..Len(reflections) : reflections[i].qa_iterations >= 3
        ELSE IF Goal.metric.name = "success_rate"
        THEN /\ Lt(current, target)
             /\ \E i \in 1..Len(reflections) : ~reflections[i].success
        ELSE FALSE
ProposedForMetric ==
    /\ pc = "done"
    /\ frame.entry = "run"
    /\ Goal.type = "metric"
    /\ HasMetric(Goal)
    /\ \E i \in 1..Len(trace) : trace[i] = "propose"
ProposalCount == IF MetricGuard THEN 1 ELSE 0
\* C19: a run on a Metric goal that is not achieved proposes exactly one card
\* when the guard of the goal's metric holds (avg_qa_iterations: current above
\* target and one of the 20 most recent reflections has 3 or more QA
\* iterations; success_rate: current below target and one of them failed)
\* and none otherwise; when the guard holds the run returns awaiting_user
\* with cards_proposed = 1 and the persisted goal is still Active.
C19_MetricProposal ==
    ProposedForMetric =>
        /\ Len(NewCards) = ProposalCount
        /\ MetricGuard =>
               /\ Returned("awaiting_user")
               /\ result.cards_proposed = 1
               /\ HasGoal(goalsFile, Goal.id)
               /\ GetGoal(goalsFile, Goal.id).status = "active"

\* C20: for a Discovery goal with discovery_count = k and d discovery cards
\* already linked to it, a run whose search meets m qualifying discoveries
\* creates exactly min(k - d, m) cards linked to the goal.
Min(a, b) == IF a < b THEN a ELSE b
C20_DiscoveryCards ==
    (pc = "run_decide" /\ Goal.type = "discovery")
        => LET k == Goal.discovery_count
               d == GetDiscovered(frame.current_metrics)
               m == frame.found
               linked == SelectSeq(NewCards, LAMBDA c : c.goal_id = Goal.id)
           IN  Len(linked) = Min(k - d, m)

\* the discovery cards in cards.json that are linked to the goal of the call
LinkedDiscoveries ==
    Len(SelectSeq(cardsFile, LAMBDA c : c.goal_id = Goal.id /\ c.type = "discovery"))
\* C21: every achievement check of a Discovery goal, in run or in
\* resume_after_user_action, sets goal.discovered_so_far to the number of
\* discovery cards linked to the goal, persists the goal and answers achieved
\* iff that number >= discovery_count; the check of a Metric or PatternFix
\* goal leaves goals.json as it is.
C21_DiscoveryCheckSyncs ==
    [][ (pc \in {"run_check", "resume_check"}) =>
          (IF Goal.type = "discovery"
           THEN /\ heap'[frame.goal].discovered_so_far = LinkedDiscoveries
                /\ HasGoal(goalsFile', Goal.id)
                /\ GetGoal(goalsFile', Goal.id).discovered_so_far = LinkedDiscoveries
                /\ IF LinkedDiscoveries >= Goal.discovery_count
                   THEN pc' \in {"run_achieved", "resume_achieved"}
                   ELSE pc' \in {"run_propose", "resume_stalled"}
           ELSE goalsFile' = goalsFile) ]_vars

\* C22: the achievement check of a PatternFix goal answers true iff
\* patterns.json holds no pattern with severity high.
C22_PatternFixAchieved ==
    ((CheckedTrue \/ CheckedFalse) /\ Goal.type = "pattern_fix")
        => (CheckedTrue <=> \A i \in 1..Len(patternsFile) : patternsFile[i].severity # "high")
\* a PatternFix goal was found achieved while a medium pattern is stored
C22_Witness ==
    /\ CheckedTrue
    /\ Goal.type = "pattern_fix"
    /\ Len(patternsFile) = 1
    /\ patternsFile[1].severity = "medium"

\* C23: no failure of the card-generation step is fatal to run: a call of run
\* whose last step was the propose step has reached the return statement of
\* no_proposals or of awaiting_user, never ended by the step's exception.
C23_ProposeFailureNotFatal ==
    (pc = "done" /\ trace # <<>> /\ trace[Len(trace)] = "propose")
        => exitAt \in {"no_proposals", "awaiting_user"}

\* C24: a read of the store whose file is missing or damaged answers with
\* the empty list (get_metrics: the default metrics) and does not raise;
\* nor does recalculate_metrics when one of the four lists is.
C24_ReadsTolerateDamage ==
    /\ \A name \in ListNames :
           (answer.call = name /\ disk[name] # "sound")
               => (answer.exc = None /\ answer.list = <<>>)
    /\ (answer.call = "metrics" /\ disk["metrics"] # "sound")
           => (answer.exc = None /\ answer.metrics = DefaultMetrics)
    /\ (answer.call = "recalculate_metrics") => answer.exc = None

\* C25: recalculate_metrics recomputes the metrics from the stored cards,
\* goals, reflections and patterns alone and persists them; called a second
\* time with no write in between it returns the same metrics and leaves
\* metrics.json as it is.
C25_RecalculateIdempotent ==
    [][ (answer'.call = "recalculate_metrics" /\ answer'.exc = None /\ pc # "done") =>
          (/\ answer'.metrics =
                  RecalculateMetrics(Readable(disk["reflections"], reflectionsFile),
                                     Readable(disk["cards"], cardsFile),
                                     Readable(disk["goals"], goalsFile),
                                     Readable(disk["patterns"], patternsFile))
           /\ metricsFile' = answer'.metrics
           /\ (pc = "recalculated") => (answer' = answer /\ metricsFile' = metricsFile)) ]_vars
\* the second recalculation in a row has returned metrics that count a task
C25_Witness ==
    /\ pc = "done"
    /\ answer.call = "recalculate_metrics"
    /\ answer.exc = None
    /\ answer.metrics.total_tasks = 1
    /\ metricsFile = answer.metrics

\* C26: the list discover returns holds only gathered discoveries with
\* relevance_score >= 0.3, no two of them with the same URL or with names
\* equal up to case, in non-increasing order of relevance_score, at most
\* limit of them; a gathered discovery at 0.3 or above that is the first of
\* the gathered ones with its URL and with its name is returned when limit
\* leaves room for all that pass.
C26_FilteredSortedTruncated ==
    (pc = "done") =>
        LET gathered == search.gathered
            returned == search.returned
            Same(a, b) == a.url = b.url \/ LowerName(a.name) = LowerName(b.name)
            passing == {i \in 1..Len(gathered) :
                          /\ gathered[i].relevance_score >= RelevanceThreshold
                          /\ \A j \in 1..(i - 1) : ~Same(gathered[j], gathered[i])}
        IN  /\ \A i \in 1..Len(returned) :
                   /\ returned[i].relevance_score >= RelevanceThreshold
                   /\ \E j \in 1..Len(gathered) : gathered[j] = returned[i]
            /\ \A i, j \in 1..Len(returned) : i # j => ~Same(returned[i], returned[j])
            /\ \A i \in 1..(Len(returned) - 1) :
                   returned[i].relevance_score >= returned[i + 1].relevance_score
            /\ Len(returned) <= search.limit
            /\ \A i \in passing :
                   (Len(FilterAndDeduplicate(gathered, NothingSeen)) <= search.limit)
                       => \E k \in 1..Len(returned) : returned[k] = gathered[i]
\* of a discovery at 0.29, one at 0.30 with the same URL and one at 0.50
\* named like it, the one at 0.30 alone was returned
C26_Witness ==
    /\ pc = "done"
    /\ Len(search.gathered) = 3
    /\ search.gathered[1].relevance_score = RelevanceThreshold - 1
    /\ search.gathered[2].relevance_score = RelevanceThreshold
    /\ search.gathered[2].url = search.gathered[1].url
    /\ search.gathered[3].relevance_score = 50
    /\ search.gathered[3].url # search.gathered[2].url
    /\ LowerName(search.gathered[3].name) = LowerName(search.gathered[2].name)
    /\ search.gathered[3].name # search.gathered[2].name
    /\ search.limit = 2
    /\ search.returned = <<search.gathered[2]>>

\* a response with results: status 200
Ok(response) == response.kind = "status" /\ response.status = 200
\* C27: discover does not raise, and what it returns is the filtered, sorted
\* and truncated items of the sources that answered 200 (and what the cache
\* held for the others it did not call): a source that failed counts for
\* nothing, every other source for its results.
C27_FailedSourcesAlone ==
    (pc = "done") =>
        LET results ==
                [src \in Sources |->
                    [list |-> IF src \notin search.called THEN search.cache[src].list
                              ELSE IF Ok(search.searched[src].response)
                              THEN search.searched[src].response.items
                              ELSE <<>>]]
        IN  search.returned = FilterSortTruncate(Extend(results, SourceOrder), search.limit)

\* C28: a discover less than CacheDuration seconds after the network
\* answered a source with results does not call that source again; for a
\* source never searched, or searched CacheDuration seconds ago or more, it
\* calls the network and, answered with results, caches them with the time.
C28_CachedForAnHour ==
    [][ (pc = "idle" /\ pc' = "discover_filter") =>
          \A src \in Sources :
              LET prev == search.searched[src]
                  elapsed == search.now - prev.at
              IN  (IF prev.done /\ Ok(prev.response) /\ elapsed < CacheDuration
                   THEN src \notin search'.called
                   ELSE IF ~prev.done \/ elapsed >= CacheDuration
                   THEN /\ src \in search'.called
                        /\ Ok(search'.searched[src].response) =>
                               search'.cache[src] =
                                   CacheEntry(TRUE, search.now,
                                              search'.searched[src].response.items)
                   ELSE TRUE) ]_vars

\* C29: a finished run_simple_task_loop has not raised; if the oracle exited
\* 0 it did so at the last of its k <= max_iterations runs only and the loop
\* returned True after k agent sessions and k oracle runs; if it never did,
\* the loop returned False after max_iterations of each; sessions that
\* raised count like the others.
C29_SessionThenOracle ==
    (simple.entered /\ pc = "done") =>
        LET k == Len(simple.oracle)
            zeros == {i \in 1..k : simple.oracle[i] = "exit_0"}
        IN  /\ simple.raised = None
            /\ IF zeros # {}
               THEN /\ zeros = {k}
                    /\ k <= simple.max_iterations
                    /\ simple.returned = "True"
                    /\ simple.sessions = k
               ELSE /\ simple.returned = "False"
                    /\ k = simple.max_iterations
                    /\ simple.sessions = simple.max_iterations
\* the loop returned True at the second of three iterations, and one of the
\* two agent sessions had raised
C29_Witness ==
    /\ pc = "done"
    /\ simple.max_iterations = 3
    /\ simple.returned = "True"
    /\ simple.sessions = 2
    /\ simple.failed = 1
    /\ Len(simple.oracle) = 2

\* C30: an oracle run that times out or cannot be started ends neither the
\* evaluation nor the loop with an exception and is taken like an exit with
\* a non-zero code: the loop goes on to its while test, and with iterations
\* left the next agent session runs.
C30_TimeoutIsFailure ==
    [][ /\ (pc = "simple_check" /\ simple'.oracle[Len(simple'.oracle)] # "exit_0") =>
              (/\ pc' = "simple_loop"
               /\ simple' = [simple EXCEPT !.oracle = simple'.oracle])
        /\ (pc = "simple_loop" /\ simple.iteration < simple.max_iterations) =>
              (pc' = "simple_session" /\ simple'.iteration = simple.iteration + 1) ]_vars
\* the second agent session starts after an oracle run that timed out
C30_Witness ==
    /\ pc = "simple_session"
    /\ simple.iteration = 2
    /\ simple.oracle = <<"timeout">>

\* C31: a pass of the polling loop is made only before the timeout has
\* elapsed and, when it does not return, ends a poll interval later at
\* least; the wait returns without timeout only with READY, ERROR or
\* CANCELED observed; the state returned on timeout is not ready, and
\* run_vercel_monitor then returns False at once.
C31_WaitEnds ==
    [][ /\ (pc = "wait_poll" /\ pc' = "wait_poll") =>
              /\ vercel.elapsed < TimeoutSeconds
              /\ vercel'.elapsed >= vercel.elapsed + DefaultPollIntervalSeconds
        /\ (pc = "wait_poll" /\ pc' # "wait_poll" /\ ~vercel'.timed_out) =>
              /\ vercel.elapsed < TimeoutSeconds
              /\ vercel'.state.status \in {"READY", "ERROR", "CANCELED"}
        /\ (pc = "wait_poll" /\ vercel'.timed_out) =>
              /\ vercel.elapsed >= TimeoutSeconds
              /\ ~IsReady(vercel'.state)
        /\ (pc = "monitor_check" /\ vercel.timed_out) =>
              (pc' = "done" /\ vercel'.returned = "False") ]_vars

\* C32: the fix loop that has used up its attempts, the one entered with
\* none left included, writes VERCEL_ESCALATION.md and returns False
\* without raising.
C32_ExhaustionEscalates ==
    [][ (pc = "fix_escalate" /\ vercel.fix_attempt >= MaxVercelFixAttempts) =>
          /\ vercel'.raised = None
          /\ vercel'.report.written
          /\ vercel'.returned = "False" ]_vars

\* C35: the passes of a fix loop number at most MAX_VERCEL_FIX_ATTEMPTS
\* less the attempts it was entered with, every fixer session belongs to
\* a pass of its own, and so no more than 5 sessions run.
C35_SessionsBounded ==
    LET budget == IF vercel.initial < MaxVercelFixAttempts
                  THEN MaxVercelFixAttempts - vercel.initial ELSE 0
        passes == vercel.fix_attempt - vercel.initial
    IN  /\ passes <= budget
        /\ vercel.sessions <= passes
        /\ vercel.sessions <= 5
        /\ (pc = "fix_session") => vercel.sessions < passes
\* a loop entered with no attempt made ended after five sessions, some
\* recorded as failed passes, the last on a deployment that failed again
C35_Witness ==
    /\ pc = "done"
    /\ vercel.initial = 0
    /\ vercel.sessions = 5
    /\ vercel.returned = "False"
    /\ vercel.report.written
    /\ Len(vercel.state.fix_history) = 0
    /\ vercel.state.status = "ERROR"
    /\ vercel.file.state.fix_attempts = 5

\* C36: a post-fix wait that ends neither READY nor ERROR makes the fix
\* loop return False; no further pass is started on that state.
C36_NoFixAfterTimeout ==
    [][ (pc = "fix_after_wait" /\ ~IsReady(vercel.state) /\ ~IsFailed(vercel.state)) =>
          (pc' = "done" /\ vercel'.returned = "False") ]_vars

\* C38: the saved deployment state has one fix_history entry per attempt
\* counted in fix_attempts, and the escalation report lists as many
\* attempts as the state counts.
C38_HistoryAccountsForAttempts ==
    /\ vercel.file.written =>
           Len(vercel.file.state.fix_history) = vercel.file.state.fix_attempts
    /\ vercel.report.written =>
           Len(vercel.report.attempts) = vercel.state.fix_attempts

\* C34: an invocation of the memory query tool that has exited wrote one
\* line to standard output, a JSON object with a success field, and its
\* exit code is 0 exactly when success is true.
C34_OneJsonLine ==
    tool.exited =>
        /\ Len(tool.stdout) = 1
        /\ tool.stdout[1].json
        /\ (tool.code = 0) <=> tool.stdout[1].success

\* C33: a save_card that ran from its load to its dump with no other
\* invocation inside save_card leaves cards.json readable, holding its card
\* and every card it read from the file; nothing in the store keeps two
\* invocations from interleaving, and then a save that returned can be
\* missing from the file.
C33_SingleWriterKeeps ==
    [][ \A w \in Writers :
          (writers[w].at = "opened" /\ writers'[w].at = "idle" /\ writers[w].alone) =>
              /\ disk'["cards"] = "sound"
              /\ HasCard(cardsFile', writers[w].card.id)
              /\ \A i \in 1..Len(writers[w].data) :
                     HasCard(cardsFile', writers[w].data[i].id) ]_vars
\* both invocations saved one new card each, both saves returned, and the
\* readable cards.json holds the old card and only one of the two new ones
C33_Witness ==
    /\ \A w \in Writers : writers[w].at = "idle" /\ writers[w].saves = 1
    /\ disk["cards"] = "sound"
    /\ Len(cardsFile) = 2
    /\ HasCard(cardsFile, 1)
    /\ HasCard(cardsFile, WriterCardId("a", 1))
    /\ ~HasCard(cardsFile, WriterCardId("b", 1))

\* C37: the goal get_goal hands back has the id, type, status, metric,
\* counters and timestamps of the stored record, can be serialised again
\* (so save_goal, run and resume_after_user_action accept it), and saving
\* it leaves goals.json as it is.
C37_GoalsSurviveRestart ==
    [][ (pc = "idle" /\ pc' = "idle" /\ heap' # heap /\ goalsFile' = goalsFile) =>
          \A h \in Handles :
              (heap'[h] # heap[h]) =>
                  /\ HasGoal(goalsFile, heap'[h].id)
                  /\ GoalToDict(heap'[h]) = GoalToDict(GetGoal(goalsFile, heap'[h].id))
                  /\ CanSerialize(heap'[h])
                  /\ SaveGoal(goalsFile, heap'[h]) = goalsFile ]_vars

\* ---------------------------------------------------------------------------
\* Pattern history under reflections, goal loops and card reviews
\* ---------------------------------------------------------------------------

\* The post-task reflection, the goal loop on the pattern-fix goal and its
\* resumption, and card status updates, interleaved on one directory.
PatternsInit == Init /\ heap["h1"].type = "pattern_fix"
PatternsNext ==
    \/ \E r \in TaskKinds : ReflectCall(r)
    \/ ReflectAnalyze
    \/ ReflectRecalc
    \/ \E id \in ReflectCardIds, st \in CardStatuses : UpdateCardStatusCall(id, st)
    \/ \E m \in 1..MaxIter : RunCall("h1", m)
    \/ RunSaveGoal
    \/ RunLoop
    \/ RunGather
    \/ RunCheck
    \/ RunAchieved
    \/ RunPropose
    \/ RunDecide
    \/ RunExhausted
    \/ \E i \in 0..MaxIter : ResumeCall("h1", i, MaxIter)
    \/ ResumeGather
    \/ ResumeCheck
    \/ ResumeAchieved
    \/ ResumeStalled
    \/ Return
SpecPatterns == PatternsInit /\ [][PatternsNext]_vars

HighSeverityCount(pFile) ==
    Len(SelectSeq(GetPatterns(pFile), LAMBDA p : p.severity = "high"))

PatternFixAchieved(goal, metrics, cFile, pFile) ==
    IsGoalAchieved(goal, GatherMetrics(goal, metrics, cFile, pFile))

\* C39: no step of a reflection, a goal loop, a resumption or a card status
\* update removes a stored pattern or changes one: patterns.json only grows at
\* its end, the number of high-severity patterns never decreases, and a
\* pattern-fix goal that is not achieved before a step is not achieved after it.
C39_HighSeverityNeverDecreases ==
    [][ /\ Len(patternsFile') >= Len(patternsFile)
        /\ \A i \in 1..Len(patternsFile) : patternsFile'[i] = patternsFile[i]
        /\ HighSeverityCount(patternsFile') >= HighSeverityCount(patternsFile)
        /\ \A h \in Handles :
              (/\ heap[h] # NoGoal
               /\ heap[h].type = "pattern_fix"
               /\ heap'[h] = heap[h]
               /\ ~PatternFixAchieved(heap[h], metricsFile, cardsFile, patternsFile))
              => ~PatternFixAchieved(heap'[h], metricsFile', cardsFile', patternsFile') ]_vars

\* A reflection has stored a high-severity pattern, a card has been reviewed,
\* and a resumed goal loop has checked the pattern-fix goal again and found it
\* still not achieved.
C39_Witness ==
    /\ HighSeverityCount(patternsFile) >= 1
    /\ \E i \in 1..Len(cardsFile) : cardsFile[i].status # "proposed"
    /\ frame # NoFrame
    /\ frame.entry = "resume"
    /\ Len(trace) > 0
    /\ trace[Len(trace)] = "check_false"

====
